---- MODULE Spec2Model ----
(***************************************************************************)
(* Verification model of solace-ai-connector.                              *)
(*                                                                         *)
(* Part I  (SpecFlow): the component runner of components/component_base.py *)
(*   - one worker per component, bounded input queue, ack / nack chains,   *)
(*     error-queue diversion, retry back-off, stop signal.                 *)
(* Part II (SpecRR): flow/request_response_flow_controller.py              *)
(*   - the generator do_broker_request_response over a discrete clock.     *)
(* Part III (SpecBroker): common/messaging, the development broker         *)
(*   - topic matching, publish fan-out, isolation of delivered copies.     *)
(* Part IV (SpecCC): command_control, the command-and-control plane        *)
(*   - entity registry, request router, broker adapter.                    *)
(* Part V  (SpecTrace, SpecContext): command_control/tracing.py            *)
(*   - the tracing system and TraceContext.                                *)
(* Part VI (SpecBackoff): ComponentBase.run over a long run of iterations  *)
(* Part VII (SpecConnection): common/messaging/solace_messaging.py         *)
(* Part VIII (SpecWaits): the blocking queue calls and the stop signal     *)
(* Part IX (SpecRunners): sibling instances of a component, their shared   *)
(*   input queue and their worker loops, one step per queue call or test   *)
(* Part X (SpecLifecycle): solace_ai_connector.py and flow/app.py, the     *)
(*   apps and their flows from creation to cleanup                         *)
(* Part XI (SpecSimplified): flow/app.py, the implicit flow of a           *)
(*   simplified app                                                        *)
(* Part XII (SpecCallers): flow/request_response_flow_controller.py with   *)
(*   several calling threads                                               *)
(* Part XIII (SpecPipeline): components/component_base.py, the progress    *)
(*   of envelopes through a flow that is not shut down                     *)
(* Part XIV (SpecThreads): command_control, the registry and the router    *)
(*   called from three threads                                             *)
(* Part XV (SpecClients): common/messaging/dev_broker_messaging.py, the    *)
(*   clients of one flow_kv_store                                          *)
(* Part XVI (SpecAssembly): components/inputs_outputs/assembly.py          *)
(***************************************************************************)
EXTENDS Integers, Sequences, FiniteSets, TLC

(***************************************************************************)
(* Bounds of the model                                                     *)
(***************************************************************************)
NumComponents == 2      \* components in the flow under analysis
QueueMaxDepth == 2      \* component_queue_max_depth configured for the flow
MaxMsgs == 7            \* envelopes handed to the flow in one behaviour
MaxErrorQueue == 2      \* error envelopes the error queue is observed to hold
RequestExpiry == 2      \* request_expiry_ms, in clock ticks
MaxTime == 8            \* the clock is observed up to this instant
MaxRequests == 3        \* requests issued on the controller in one behaviour
MaxResponses == 3       \* responses the internal flow delivers in one behaviour
MaxPublishes == 1       \* calls of the development broker's send_message
MaxSubscribes == 2      \* calls of the development broker's subscribe
MaxConnects == 1        \* calls of the development broker's connect
MaxRegisterCalls == 3   \* calls of the entity registry's register_entity
MaxIterations == 12     \* iterations of one worker loop in the back-off analysis
NumConnections == 3     \* SolaceMessaging objects of the process
MaxStopAge == 3         \* seconds followed after the stop signal is set
NumInstances == 2       \* instances of the component with siblings
MaxEvents == 3          \* events put on the channel of the sibling instances
MaxApps == 3            \* apps of the connector's configuration
MaxFlows == 2           \* flows of one app
MaxUserComponents == 3  \* components a simplified app lists
NumCallers == 2         \* threads calling one request/response controller
MaxCalls == 2           \* requests they send through it
MaxReplies == 3         \* responses the internal flow hands back
NumClients == 2         \* development-broker clients sharing one queue table
MaxSends == 2           \* messages they publish
MaxAssemblyMessages == 4 \* messages handed to the Assembly component
MaxItems == 2           \* max_items configured for the Assembly component

(***************************************************************************)
(* Program constants                                                       *)
(***************************************************************************)
MaxSleepTime == 60      \* grow_sleep_time stops doubling at 60 s

Components == 1..NumComponents
ExceptionTypes == {"ValueError", "TimeoutError"}

\* Configuration of the flow: component 2 overrides nack_reaction_to_exception
\* (ValueError -> FAILED, anything else -> REJECTED); the others inherit the
\* default of ComponentBase.
OverridesNackReaction == {2}
OverriddenReaction(e) == IF e = "ValueError" THEN "FAILED" ELSE "REJECTED"

\* GiveNackOutput's configuration parameter nack_outcome (default REJECTED),
\* set to FAILED on component 1.
nack_outcome(c) == IF c = 1 THEN "FAILED" ELSE "REJECTED"

\* Payloads of the envelopes handed to the flow.
Payloads == {"p"}

\* Components are named after their position in the flow configuration.
ComponentName(c) == c

VARIABLES
    \* ---- Part I: flow of component runners ----
    input_queue,        \* [Components -> Seq(envelope)]  queue.Queue(maxsize)
    pc,                 \* [Components -> {"get","process","send","stopped"}]
    message,            \* [Components -> envelope]  envelope held by the worker
    stop_signal,        \* BOOLEAN
    sleep_time,         \* [Components -> Nat]  event_message_repeat_sleep_time
    error_queue,        \* Seq of error envelopes
    forgotten,          \* the envelope that left the flow in the last step
    created             \* number of envelopes handed to the flow so far

flowVars == <<input_queue, pc, message, stop_signal, sleep_time,
              error_queue, forgotten, created>>

VARIABLES
    \* ---- Part II: request/response flow controller ----
    now,                \* the clock (time.time()), in ticks
    rr_input_queue,     \* self.input_queue: head queue of the internal flow
    response_queue,     \* self.response_queue: unbounded queue.Queue()
    enqueue_time,       \* self.enqueue_time
    request_outstanding,\* self.request_outstanding
    gen_pc,             \* position of the generator do_broker_request_response
    gen_stream,         \* its argument stream
    gen_deadline,       \* instant at which the timeout of its get elapses
    gen_outcome,        \* how the generator ended: returned or an exception
    gen_yields,         \* the pairs (message, is_last) it has yielded
    gen_request,        \* the request it serves (0 before the first)
    gen_first_read,     \* responses read off the queue before it started
    published,          \* requests the internal flow has taken and published
    arrived,            \* every response put on the response queue, in order
    timed_out           \* requests that ended with TimeoutError

rrVars == <<now, rr_input_queue, response_queue, enqueue_time,
            request_outstanding, gen_pc, gen_stream, gen_deadline,
            gen_outcome, gen_yields, gen_request, gen_first_read,
            published, arrived, timed_out>>

VARIABLES
    \* ---- Part III: in-process development broker ----
    broker_module,      \* the module whose DevBroker class is instantiated
    connected,          \* self.connected
    subscriptions,      \* self.subscriptions: key -> list of queue ids
    queues,             \* self.queues: queue id -> messages waiting
    heap,               \* payload objects: reference -> content
    pub_ref,            \* the payload object the publisher last published
    held,               \* queue id -> message its consumer last received
    sent,               \* what the send_message of the last step did
    publishes,          \* calls of send_message so far
    subscribes,         \* calls of subscribe so far
    connects            \* calls of connect so far

brokerVars == <<broker_module, connected, subscriptions, queues, heap,
                pub_ref, held, sent, publishes, subscribes, connects>>

VARIABLES
    \* ---- Part IV: command-and-control plane ----
    entities,           \* EntityRegistry.entities: entity_id -> entity_data
    endpoints,          \* EntityRegistry.endpoints: pattern string -> entry
    endpoint_patterns,  \* EntityRegistry.endpoint_patterns
    cc_result,          \* what the last call on the plane returned
    before,             \* the registry as the last successful registration
                        \* found it
    register_calls,     \* calls of register_entity so far
    topic_prefix,       \* BrokerAdapter.topic_prefix (<<>> before construction)
    response_flow_name, \* BrokerAdapter.response_flow_name ("None" if unset)
    command_handler     \* BrokerAdapter.command_handler ("None" if unset)

registryVars == <<entities, endpoints, endpoint_patterns, cc_result, before,
                  register_calls>>
adapterVars == <<topic_prefix, response_flow_name, command_handler>>
ccVars == <<registryVars, adapterVars>>

VARIABLES
    \* ---- Part V: tracing system ----
    enabled,            \* TracingSystem.enabled
    default_level,      \* TracingSystem.default_level
    entity_levels,      \* TracingSystem.entity_levels ("unset": no override)
    broker_adapter,     \* TracingSystem.broker_adapter is set
    emitted,            \* the last emit_trace call and what it published
    context             \* the TraceContext under analysis

traceConfig == <<enabled, default_level, entity_levels, broker_adapter>>
traceVars == <<traceConfig, emitted, context>>

VARIABLES
    \* ---- Part VI: the worker loop over a long run of iterations ----
    event_message_repeat_sleep_time,  \* ComponentBase's back-off delay, in s
    slept,                 \* timeout of the last back-off wait (0: none yet)
    consecutive_failures,  \* iterations that raised since the last success
    iterations             \* iterations of the loop so far

backoffVars == <<event_message_repeat_sleep_time, slept, consecutive_failures,
                 iterations>>

VARIABLES
    \* ---- Part VII: the persistent broker's connection status ----
    _connection_status,    \* the module-level status of solace_messaging.py
    messaging_service      \* per SolaceMessaging: state of its vendor service

connVars == <<_connection_status, messaging_service>>

VARIABLES
    \* ---- Part VIII: the blocking waits of the runtime ----
    shutdown,              \* the stop signal, as the waiting threads see it
    blocked,               \* wait -> is its thread blocked in the queue call
    timeout_left,          \* wait -> seconds until the call's timeout elapses
    stop_age               \* seconds since the stop signal was set

waitVars == <<shutdown, blocked, timeout_left, stop_age>>

VARIABLES
    \* ---- Part IX: sibling instances of one component ----
    instance_queue,        \* instance -> the queue.Queue it created
    worker_pc,             \* instance -> position of its worker in run()
    current_event,         \* instance -> the event its worker holds (0: none)
    worker_stop_signal,    \* the stop signal the workers test
    processed,             \* instance -> the events it processed, in order
    placed                 \* events put on the component's channel so far

runnerVars == <<instance_queue, worker_pc, current_event, worker_stop_signal,
                processed, placed>>

VARIABLES
    \* ---- Part X: the connector's apps from creation to cleanup ----
    apps,                  \* SolaceAiConnector.apps: the apps, each with its flows
    lifecycle,             \* where the connector is: creating ... done
    cleaning,              \* position of cleanup(): app and flow it is at
    cleanup_log            \* <<app_index, flow index>> of every Flow.cleanup call

lifecycleVars == <<apps, lifecycle, cleaning, cleanup_log>>

VARIABLES
    \* ---- Part XI: the implicit flow of a simplified app ----
    app_info,              \* App.app_info: the app's configuration
    flow_config            \* what _create_simplified_flow_config returned

simplifiedVars == <<app_info, flow_config>>

VARIABLES
    \* ---- Part XII: several callers of one request/response controller ----
    caller_pc,             \* caller -> position of its generator
    caller_stream,         \* caller -> its argument stream
    caller_request,        \* caller -> the request it sent (0: none yet)
    caller_yields,         \* caller -> the messages its generator yielded
    controller_input_queue,    \* self.input_queue of the shared controller
    controller_response_queue, \* self.response_queue of the shared controller
    requests_published,    \* requests the internal flow has published
    requests_sent,         \* requests sent through the controller so far
    responses_enqueued     \* calls of enqueue_response so far

callerVars == <<caller_pc, caller_stream, caller_request, caller_yields,
                controller_input_queue, controller_response_queue,
                requests_published, requests_sent, responses_enqueued>>

VARIABLES
    \* ---- Part XIII: progress of envelopes through a running flow ----
    stage_queue,           \* component -> its input queue (envelope numbers)
    stage_pc,              \* component -> position of its worker
    stage_event,           \* component -> the envelope its worker holds
    outcome,               \* envelope -> component -> how process_event ended
    head_puts              \* envelopes put on the head channel so far

pipelineVars == <<stage_queue, stage_pc, stage_event, outcome, head_puts>>

VARIABLES
    \* ---- Part XIV: the registry under concurrent callers ----
    registering,           \* the thread inside register_entity
    deregistering,         \* the thread inside deregister_entity
    routing                \* the thread inside route_request

threadVars == <<registering, deregistering, routing>>

VARIABLES
    \* ---- Part XV: development-broker clients on the shared tables ----
    kv_subscriptions,      \* flow_kv_store["dev_broker:subscriptions"]
    kv_queues,             \* flow_kv_store["dev_broker:queues"]: queue id ->
                           \* reference of its queue.Queue object
    queue_objects,         \* reference -> messages waiting on that object
    client_connected,      \* client -> self.connected
    consumer_waits,        \* client -> the Queue object its consumer is
                           \* blocked on inside get (0: not receiving)
    client_sends           \* calls of send_message so far

clientVars == <<kv_subscriptions, kv_queues, queue_objects, client_connected,
                consumer_waits, client_sends>>

VARIABLES
    \* ---- Part XVI: the Assembly component ----
    assembly_queue,        \* the component's input queue: MESSAGE and TIMER
                           \* events
    cache,                 \* cache_service: key -> the current assembly
    timers,                \* timer manager: key -> the assembly whose start
                           \* armed the pending timer (0: no timer pending)
    assemblies,            \* assemblies started so far
    assembly_messages,     \* messages put on the input queue so far
    handled                \* what handling the last event did

assemblyVars == <<assembly_queue, cache, timers, assemblies,
                  assembly_messages, handled>>

\* Variables of the subsystems added after Part V.
laterVars == <<backoffVars, connVars, waitVars, runnerVars,
               lifecycleVars, simplifiedVars, callerVars, pipelineVars,
               threadVars, clientVars,
               assemblyVars>>

nonFlowVars == <<rrVars, brokerVars, ccVars, traceVars, laterVars>>
nonRRVars == <<flowVars, brokerVars, ccVars, traceVars, laterVars>>
nonBrokerVars == <<flowVars, rrVars, ccVars, traceVars, laterVars>>
nonCCVars == <<flowVars, rrVars, brokerVars, traceVars, laterVars,
    assemblyVars>>
nonTraceVars == <<flowVars, rrVars, brokerVars, ccVars, laterVars>>
nonControlVars == <<flowVars, rrVars, brokerVars, laterVars>>
nonLaterVars == <<flowVars, rrVars, brokerVars, ccVars, traceVars>>
nonBackoffVars == <<nonLaterVars, connVars, waitVars, runnerVars, lifecycleVars,
    simplifiedVars, callerVars,
    pipelineVars,
    threadVars,
    clientVars,
    assemblyVars>>
nonConnVars == <<nonLaterVars, backoffVars, waitVars, runnerVars, lifecycleVars,
    simplifiedVars, callerVars,
    pipelineVars,
    threadVars,
    clientVars,
    assemblyVars>>
nonWaitVars == <<nonLaterVars, backoffVars, connVars, runnerVars, lifecycleVars,
    simplifiedVars, callerVars,
    pipelineVars,
    threadVars,
    clientVars,
    assemblyVars>>
nonRunnerVars == <<nonLaterVars, backoffVars, connVars, waitVars, lifecycleVars,
    simplifiedVars, callerVars,
    pipelineVars,
    threadVars,
    clientVars,
    assemblyVars>>
nonSimplifiedVars == <<nonLaterVars, backoffVars, connVars, waitVars, runnerVars,
    lifecycleVars, callerVars,
    pipelineVars,
    threadVars,
    clientVars,
    assemblyVars>>
nonCallerVars == <<nonLaterVars, backoffVars, connVars, waitVars, runnerVars,
    lifecycleVars, simplifiedVars,
    pipelineVars,
    threadVars,
    clientVars,
    assemblyVars>>
nonPipelineVars == <<nonLaterVars, backoffVars, connVars, waitVars, runnerVars,
    lifecycleVars, simplifiedVars, callerVars,
    threadVars,
    clientVars,
    assemblyVars>>
nonLifecycleVars == <<nonLaterVars, backoffVars, connVars, waitVars, runnerVars,
    simplifiedVars, callerVars,
    pipelineVars,
    threadVars,
    clientVars,
    assemblyVars>>
nonThreadVars == <<flowVars, rrVars, brokerVars, traceVars,
    backoffVars, connVars, waitVars, runnerVars,
    lifecycleVars, simplifiedVars, callerVars, pipelineVars,
    clientVars,
    assemblyVars>>
nonClientVars == <<nonLaterVars, backoffVars, connVars, waitVars, runnerVars,
    lifecycleVars, simplifiedVars, callerVars, pipelineVars,
    threadVars,
    assemblyVars>>
nonAssemblyVars == <<nonLaterVars, backoffVars, connVars, waitVars, runnerVars,
    lifecycleVars, simplifiedVars, callerVars, pipelineVars,
    threadVars, clientVars>>

vars == <<flowVars, rrVars, brokerVars, ccVars, traceVars, laterVars>>

(***************************************************************************)
(* Message envelope.  payload, previous and the two callback stacks are    *)
(* the envelope's fields; seen is what the broker has been told about the  *)
(* envelope, trail is what each component did with it and seq is its       *)
(* position among the envelopes enqueued on the head channel.              *)
(* Firing either chain runs its callbacks once and drains both stacks.     *)
(***************************************************************************)
BrokerCalls(callbacks, what) ==
    [i \in 1..Len(SelectSeq(callbacks, LAMBDA cb : cb = "broker")) |-> what]

call_acknowledgements(env) ==
    [env EXCEPT !.ack_callbacks = <<>>, !.nack_callbacks = <<>>,
                !.seen = @ \o BrokerCalls(env.ack_callbacks, "ACK")]

call_negative_acknowledgements(env, nack) ==
    [env EXCEPT !.ack_callbacks = <<>>, !.nack_callbacks = <<>>,
                !.seen = @ \o BrokerCalls(env.nack_callbacks, nack)]

\* An envelope accepted from the broker: the input stage registered the
\* broker's ack and nack callbacks on it.
NewEnvelope(p) ==
    [payload |-> p, previous |-> 0,
     ack_callbacks |-> <<"broker">>, nack_callbacks |-> <<"broker">>,
     seen |-> <<>>, trail |-> <<>>, seq |-> 0]

NoEnvelope ==
    [payload |-> "none", previous |-> 0,
     ack_callbacks |-> <<>>, nack_callbacks |-> <<>>,
     seen |-> <<>>, trail |-> <<>>, seq |-> 0]

(***************************************************************************)
(* ComponentBase helpers                                                   *)
(***************************************************************************)
nack_reaction_to_exception(c, e) ==
    IF c \in OverridesNackReaction THEN OverriddenReaction(e) ELSE "REJECTED"

put_errors_in_error_queue == TRUE

grow_sleep_time(t) == IF t < MaxSleepTime THEN t * 2 ELSE t

reset_sleep_time == 1

\* (mutant) the tail hands its output back to the head.
next_component_wraps(c) == IF c < NumComponents THEN c + 1 ELSE 1

next_component(c) == IF c < NumComponents THEN c + 1 ELSE 0

\* (mutant) the channel is created one slot too deep.
queue_max_depth_one_more == QueueMaxDepth + 1

queue_max_depth == QueueMaxDepth

\* (mutant) the queue hands out the newest item first.
queue_put_in_front(q, item) == <<item>> \o q

\* queue.Queue.put: first in, first out.
queue_put(q, item) == Append(q, item)

\* handle_error: builds the error envelope, acknowledges the message and
\* puts the error envelope on the error queue.  r = [env, eq].
handle_error(c, e, r) ==
    IF ~put_errors_in_error_queue
    THEN r
    ELSE [env |-> call_acknowledgements(r.env),
          eq  |-> Append(r.eq, [payload |-> r.env.payload,
                                component |-> ComponentName(c),
                                exception |-> e])]

\* (mutant) the nack is fired with the default outcome, whatever the
\* component's reaction to the exception is.
handle_negative_acknowledgements_default_outcome(c, e, r) ==
    handle_error(c, e,
        [r EXCEPT !.env = call_negative_acknowledgements(r.env, "REJECTED")])

\* handle_negative_acknowledgements: nack with the component's reaction,
\* then handle_error.
handle_negative_acknowledgements(c, e, r) ==
    handle_error(c, e,
        [r EXCEPT !.env = call_negative_acknowledgements(
                              r.env, nack_reaction_to_exception(c, e))])

(***************************************************************************)
(* Part I: actions                                                         *)
(***************************************************************************)
FlowInit ==
    /\ input_queue = [c \in Components |-> <<>>]
    /\ pc = [c \in Components |-> "get"]
    /\ message = [c \in Components |-> NoEnvelope]
    /\ stop_signal = FALSE
    /\ sleep_time = [c \in Components |-> 1]
    /\ error_queue = <<>>
    /\ forgotten = NoEnvelope
    /\ created = 0

\* SolaceAiConnector.send_message_to_flow: blocking put on the head queue of
\* an envelope accepted from the broker.
send_message_to_flow(p) ==
    /\ created < MaxMsgs
    /\ Len(input_queue[1]) < queue_max_depth
    /\ created' = created + 1
    /\ input_queue' = [input_queue EXCEPT ![1] =
            queue_put(@, [NewEnvelope(p) EXCEPT !.seq = created + 1])]
    /\ UNCHANGED <<pc, message, stop_signal, sleep_time, error_queue>>
    /\ forgotten' = NoEnvelope
    /\ UNCHANGED nonFlowVars

\* ComponentBase.get_next_event: take the next event unless stopping.
get_next_event(c) ==
    /\ pc[c] = "get"
    /\ ~stop_signal
    /\ input_queue[c] # <<>>
    /\ message' = [message EXCEPT ![c] = Head(input_queue[c])]
    /\ input_queue' = [input_queue EXCEPT ![c] = Tail(@)]
    /\ pc' = [pc EXCEPT ![c] = "process"]
    /\ UNCHANGED <<stop_signal, sleep_time, error_queue, created>>
    /\ forgotten' = NoEnvelope
    /\ UNCHANGED nonFlowVars

\* The worker loop of ComponentBase.run leaves when the stop signal is set.
run_exit(c) ==
    /\ pc[c] = "get"
    /\ stop_signal
    /\ pc' = [pc EXCEPT ![c] = "stopped"]
    /\ UNCHANGED <<input_queue, message, stop_signal, sleep_time,
                   error_queue, created>>
    /\ forgotten' = NoEnvelope
    /\ UNCHANGED nonFlowVars

Record(env, c, kind, x) ==
    [env EXCEPT !.trail = Append(@, [component |-> c, kind |-> kind, arg |-> x])]

\* The worker is done with the envelope and holds no reference to it.
Forget(c, env, sleep) ==
    /\ forgotten' = env
    /\ pc' = [pc EXCEPT ![c] = "get"]
    /\ message' = [message EXCEPT ![c] = NoEnvelope]
    /\ sleep_time' = [sleep_time EXCEPT ![c] = sleep]
    /\ UNCHANGED <<input_queue, stop_signal, created>>

\* process_pre_invoke raises (input transforms or input selection): the
\* exception reaches run(), which backs off and calls handle_error.
process_event_pre_invoke_raises(c, e) ==
    /\ pc[c] = "process"
    /\ Len(error_queue) + 1 <= MaxErrorQueue
    /\ LET r0 == [env |-> Record(message[c], c, "pre_raise", e),
                  eq |-> error_queue]
           r1 == handle_error(c, e, r0)
       IN /\ error_queue' = r1.eq
          /\ Forget(c, r1.env, grow_sleep_time(sleep_time[c]))
    /\ UNCHANGED nonFlowVars

\* invoke raises: handle_negative_acknowledgements, re-raise, and run()
\* backs off and calls handle_error again.
process_event_invoke_raises(c, e) ==
    /\ pc[c] = "process"
    /\ Len(error_queue) + 2 <= MaxErrorQueue
    /\ LET r0 == [env |-> Record(message[c], c, "raise", e),
                  eq |-> error_queue]
           r1 == handle_negative_acknowledgements(c, e, r0)
           r2 == handle_error(c, e, r1)
       IN /\ error_queue' = r2.eq
          /\ Forget(c, r2.env, grow_sleep_time(sleep_time[c]))
    /\ UNCHANGED nonFlowVars

\* invoke returns None without discarding: nothing is done with the message.
process_event_returns_none(c) ==
    /\ pc[c] = "process"
    /\ Forget(c, Record(message[c], c, "none", "-"), reset_sleep_time)
    /\ UNCHANGED error_queue
    /\ UNCHANGED nonFlowVars

\* process_post_invoke and send_message: set previous; the tail fires the
\* ack chain, any other component goes on to enqueue on the next one.
process_post_invoke(c, env) ==
    LET env1 == [env EXCEPT !.previous = c]
    IN IF next_component(c) = 0
       THEN Forget(c, call_acknowledgements(env1), reset_sleep_time)
       ELSE /\ message' = [message EXCEPT ![c] = env1]
            /\ pc' = [pc EXCEPT ![c] = "send"]
            /\ forgotten' = NoEnvelope
            /\ UNCHANGED <<input_queue, stop_signal, created, sleep_time>>

\* invoke returns a result.
process_event_returns_result(c) ==
    /\ pc[c] = "process"
    /\ process_post_invoke(c, Record(message[c], c, "result", "-"))
    /\ UNCHANGED error_queue
    /\ UNCHANGED nonFlowVars

\* What invoke can return.
Results == {"None", "result"}

\* (mutant) the result is looked at before the discard flag.
after_invoke_result_first(discarded, result) ==
    IF result # "None" THEN "process_post_invoke"
    ELSE IF discarded THEN "call_acknowledgements"
    ELSE "nothing"

\* process_event, lines 185-188: what is done once invoke has returned.
after_invoke(discarded, result) ==
    IF discarded THEN "call_acknowledgements"
    ELSE IF result # "None" THEN "process_post_invoke"
    ELSE "nothing"

\* invoke called discard_current_message and returned result.
process_event_discards(c, result) ==
    /\ pc[c] = "process"
    /\ LET env == Record(message[c], c, "discard", result)
           todo == after_invoke(TRUE, result)
       IN CASE todo = "call_acknowledgements" ->
                   Forget(c, call_acknowledgements(env), reset_sleep_time)
            [] todo = "process_post_invoke" -> process_post_invoke(c, env)
            [] OTHER -> Forget(c, env, reset_sleep_time)
    /\ UNCHANGED error_queue
    /\ UNCHANGED nonFlowVars

\* GiveNackOutput.invoke: fire the nack chain, then return the data.
process_event_give_nack_output(c) ==
    /\ pc[c] = "process"
    /\ process_post_invoke(c,
          call_negative_acknowledgements(
              Record(message[c], c, "nack_return", "-"), nack_outcome(c)))
    /\ UNCHANGED error_queue
    /\ UNCHANGED nonFlowVars

\* ComponentBase.enqueue on the next component: put unless the stop signal
\* is set (then the event is dropped); a full queue is retried.
enqueue(c) ==
    /\ pc[c] = "send"
    /\ LET n == next_component(c)
       IN IF stop_signal
          THEN /\ forgotten' = Record(message[c], c, "dropped", "-")
               /\ UNCHANGED input_queue
          ELSE /\ Len(input_queue[n]) < queue_max_depth
               /\ input_queue' = [input_queue EXCEPT ![n] =
                       queue_put(@, message[c])]
               /\ forgotten' = NoEnvelope
    /\ pc' = [pc EXCEPT ![c] = "get"]
    /\ message' = [message EXCEPT ![c] = NoEnvelope]
    /\ sleep_time' = [sleep_time EXCEPT ![c] = reset_sleep_time]
    /\ UNCHANGED <<stop_signal, error_queue, created>>
    /\ UNCHANGED nonFlowVars

\* The process-wide stop signal is set.
stop ==
    /\ ~stop_signal
    /\ stop_signal' = TRUE
    /\ UNCHANGED <<input_queue, pc, message, sleep_time, error_queue, created>>
    /\ forgotten' = NoEnvelope
    /\ UNCHANGED nonFlowVars

FlowNext ==
    \/ \E p \in Payloads : send_message_to_flow(p)
    \/ \E c \in Components : get_next_event(c)
    \/ \E c \in Components : run_exit(c)
    \/ \E c \in Components, e \in ExceptionTypes :
            process_event_pre_invoke_raises(c, e)
    \/ \E c \in Components, e \in ExceptionTypes :
            process_event_invoke_raises(c, e)
    \/ \E c \in Components : process_event_returns_none(c)
    \/ \E c \in Components, result \in Results : process_event_discards(c, result)
    \/ \E c \in Components : process_event_returns_result(c)
    \/ \E c \in Components : process_event_give_nack_output(c)
    \/ \E c \in Components : enqueue(c)
    \/ stop

(***************************************************************************)
(* Part I: properties                                                      *)
(***************************************************************************)
Range(f) == {f[i] : i \in DOMAIN f}

Last(q) == q[Len(q)]

\* An envelope left the flow in the last step.
Left == forgotten.trail # <<>>

RECURSIVE InFlightUpTo(_)
InFlightUpTo(c) ==
    IF c = 0 THEN 0
    ELSE InFlightUpTo(c - 1) + Len(input_queue[c])
         + (IF message[c] # NoEnvelope THEN 1 ELSE 0)

\* Envelopes waiting in a channel or being processed by a component.
InFlight == InFlightUpTo(NumComponents)

EnvelopesInFlow ==
    ( (UNION {Range(input_queue[c]) : c \in Components})
      \cup {message[c] : c \in Components} ) \ {NoEnvelope}

\* Every component that handled the envelope returned a result or discarded
\* it, up to the tail or up to the discarding component.
ReturnedOrDiscardedThroughout(t) ==
    /\ \A i \in DOMAIN t : t[i].kind \in {"result", "nack_return", "discard"}
    /\ \/ Last(t).kind = "discard"
       \/ Last(t).component = NumComponents

\* C1: for every envelope accepted from the broker the ack chain and the
\* nack chain together reach the broker at most once while the envelope is
\* in the flow and exactly once by the time it has left the flow.
C1_AckExactlyOnce ==
    /\ \A env \in EnvelopesInFlow : Len(env.seen) <= 1
    /\ Left => Len(forgotten.seen) = 1

\* C2: the broker sees an ack for an envelope if and only if every component
\* between head and tail returned a non-None result without raising or
\* explicitly discarded the envelope.
C2_AckIffTailCompletion ==
    Left => ( ("ACK" \in Range(forgotten.seen))
              <=> ReturnedOrDiscardedThroughout(forgotten.trail) )

C4_OneErrorEnvelope ==
    [][ (forgotten'.trail # <<>> /\ Last(forgotten'.trail).kind = "raise")
        => error_queue' = Append(error_queue,
               [payload |-> forgotten'.payload,
                component |-> ComponentName(Last(forgotten'.trail).component),
                exception |-> Last(forgotten'.trail).arg]) ]_vars

\* C5 (as claimed): at most N*K + 1 envelopes are in flight.
C5_Backpressure_Original ==
    InFlight <= NumComponents * QueueMaxDepth + 1

\* C5 (amended): at most N*K + N envelopes are in flight: K waiting in each
\* of the N channels and one held by each of the N workers.
C5_Backpressure ==
    InFlight <= NumComponents * QueueMaxDepth + NumComponents

\* Every channel is full and every worker holds an envelope.
C5_Witness ==
    /\ InFlight = NumComponents * QueueMaxDepth + NumComponents
    /\ \A c \in Components : Len(input_queue[c]) = QueueMaxDepth

\* The envelopes at a component in the order it takes them: the one its
\* worker holds, then its input channel.
AtComponent(c) ==
    (IF message[c] # NoEnvelope THEN <<message[c]>> ELSE <<>>)
    \o input_queue[c]

\* The envelopes component c has handed to the next runner and that are
\* still in the flow, in the order they lie downstream of it.
RECURSIVE HandedBy(_)
HandedBy(c) ==
    IF c = NumComponents THEN <<>>
    ELSE HandedBy(c + 1) \o AtComponent(c + 1)

InEnqueueOrder(q) == \A i, j \in DOMAIN q : i < j => q[i].seq < q[j].seq

\* C14: every component hands its outputs to the next runner in the order
\* in which the corresponding input envelopes were enqueued on its input
\* channel: what it has handed on lies downstream in enqueue order, ahead
\* of every input it has not handed on yet.
C14_OrderWithinRunner ==
    \A c \in Components : InEnqueueOrder(HandedBy(c) \o AtComponent(c))

\* Component 1 has handed on three envelopes and has more inputs waiting,
\* after at least one envelope was dropped on the way.
C14_Witness ==
    /\ Len(HandedBy(1)) >= 3
    /\ Len(input_queue[1]) >= 1
    /\ Last(AtComponent(1)).seq > Len(HandedBy(1)) + Len(AtComponent(1))

\* The step is component c ending process_event on an envelope it discarded.
DiscardStep(c) ==
    /\ pc[c] = "process"
    /\ pc'[c] # "process"
    /\ LET env == IF message'[c] # NoEnvelope THEN message'[c] ELSE forgotten'
       IN /\ env.trail # <<>>
          /\ Last(env.trail).component = c
          /\ Last(env.trail).kind = "discard"

\* C27: when a component marks the message it is processing as discarded,
\* the ack callbacks registered by prior stages are fired and the envelope
\* is not enqueued to any later component, whatever value invoke returned.
C27_DiscardAcksAndStops ==
    /\ [][\A c \in Components : DiscardStep(c) =>
             /\ forgotten'.seen = message[c].seen
                       \o BrokerCalls(message[c].ack_callbacks, "ACK")
             /\ forgotten'.ack_callbacks = <<>>
             /\ message'[c] = NoEnvelope
             /\ pc'[c] = "get"
             /\ input_queue' = input_queue]_vars
    /\ [](\A env \in EnvelopesInFlow :
             \A k \in DOMAIN env.trail : env.trail[k].kind # "discard")

\* The head component discarded an envelope while its invoke returned a
\* result, and the broker has its ack.
C27_Witness ==
    /\ Left
    /\ Last(forgotten.trail) =
           [component |-> 1, kind |-> "discard", arg |-> "result"]
    /\ forgotten.seen = <<"ACK">>

\* Some component raised while it was processing the envelope.
Raised(env) ==
    \E k \in DOMAIN env.trail : env.trail[k].kind \in {"pre_raise", "raise"}

\* C30: an envelope whose processing raised an exception at any stage of a
\* component (input transforms, input selection or invoke) is never acked
\* to the broker, neither by the error-diversion path of the failing
\* component nor afterwards.
C30_NoAckAfterException ==
    \A env \in EnvelopesInFlow \cup {forgotten} :
        Raised(env) => "ACK" \notin Range(env.seen)

(***************************************************************************)
(* Part II: RequestResponseFlowController                                  *)
(*                                                                         *)
(* Time is a discrete clock.  Code that does not block takes no time.  A   *)
(* Queue.get(timeout=r) entered at instant t raises ValueError at once if  *)
(* r < 0, returns an item whenever one is there, and otherwise raises      *)
(* Empty once r has elapsed on its own (monotonic) clock; the reading of   *)
(* time.time() taken after Empty lies between t + r and t + r + 1 tick:    *)
(* wall-clock time has a finite resolution and can be adjusted, so it need *)
(* not exceed the instant at which the wait was due.                       *)
(***************************************************************************)
RRInit ==
    /\ now = 0
    /\ rr_input_queue = <<>>
    /\ response_queue = <<>>
    /\ enqueue_time = 0
    /\ request_outstanding = FALSE
    /\ gen_pc = "idle"
    /\ gen_stream = FALSE
    /\ gen_deadline = 0
    /\ gen_outcome = "none"
    /\ gen_yields = <<>>
    /\ gen_request = 0
    /\ gen_first_read = 0
    /\ published = {}
    /\ arrived = <<>>
    /\ timed_out = {}

\* Responses read off the response queue so far.
TakenSoFar == Len(arrived) - Len(response_queue)

\* Lines 87-89 and 111-113: the budget left, from the controller's stamp.
remaining_timeout(stamp) == RequestExpiry - (now - stamp)

\* self.response_queue.get(timeout=remaining_timeout), lines 96 and 118:
\* a negative timeout raises ValueError, which leaves the generator.
response_queue_get_enter(stamp) ==
    IF remaining_timeout(stamp) < 0
    THEN /\ gen_pc' = "done"
         /\ gen_outcome' = "ValueError"
         /\ UNCHANGED gen_deadline
    ELSE /\ gen_pc' = "get"
         /\ gen_outcome' = "none"
         /\ gen_deadline' = now + remaining_timeout(stamp)

\* do_broker_request_response is called: send_message stamps the enqueue
\* time and puts the request on the internal flow's input queue, which
\* blocks while that queue is full.
do_broker_request_response(stream) ==
    /\ gen_pc \in {"idle", "done"}
    /\ gen_request < MaxRequests
    /\ gen_request' = gen_request + 1
    /\ gen_stream' = stream
    /\ gen_yields' = <<>>
    /\ gen_first_read' = TakenSoFar
    /\ enqueue_time' = now
    /\ request_outstanding' = TRUE
    /\ IF Len(rr_input_queue) < queue_max_depth
       THEN /\ rr_input_queue' = Append(rr_input_queue, gen_request + 1)
            /\ response_queue_get_enter(now)
       ELSE /\ gen_pc' = "put"
            /\ gen_outcome' = "none"
            /\ UNCHANGED <<rr_input_queue, gen_deadline>>
    /\ UNCHANGED <<now, response_queue, published, arrived, timed_out>>
    /\ UNCHANGED nonRRVars

\* send_message, line 153: the blocked put goes through once the internal
\* flow's input queue has room; the generator then computes its budget.
send_message_put ==
    /\ gen_pc = "put"
    /\ Len(rr_input_queue) < queue_max_depth
    /\ rr_input_queue' = Append(rr_input_queue, gen_request)
    /\ response_queue_get_enter(enqueue_time)
    /\ UNCHANGED <<now, response_queue, enqueue_time, request_outstanding,
                   gen_stream, gen_yields, gen_request, gen_first_read,
                   published, arrived, timed_out>>
    /\ UNCHANGED nonRRVars

\* The completion expression evaluated on a response message.
streaming_complete(msg) == msg.last

\* Lines 96-100 and 118-121: the get returns an event; the generator yields
\* the message with is_last (always True when not streaming).
response_queue_get ==
    /\ gen_pc = "get"
    /\ response_queue # <<>>
    /\ LET msg == Head(response_queue)
           is_last == IF gen_stream THEN streaming_complete(msg) ELSE TRUE
       IN gen_yields' = Append(gen_yields, [msg |-> msg, is_last |-> is_last])
    /\ response_queue' = Tail(response_queue)
    /\ gen_pc' = "yielded"
    /\ UNCHANGED <<now, rr_input_queue, enqueue_time, request_outstanding,
                   gen_stream, gen_deadline, gen_outcome, gen_request,
                   gen_first_read, published, arrived, timed_out>>
    /\ UNCHANGED nonRRVars

\* Lines 103-107 and 123-127: the get raises Empty.  TimeoutError is raised
\* if the clock reads more than the expiry since the stamp; otherwise the
\* streaming loop waits again and the non-streaming generator just ends.
response_queue_empty ==
    /\ gen_pc = "get"
    /\ response_queue = <<>>
    /\ now >= gen_deadline
    /\ IF (now - enqueue_time) > RequestExpiry
       THEN /\ gen_pc' = "done"
            /\ gen_outcome' = "TimeoutError"
            /\ timed_out' = timed_out \cup {gen_request}
            /\ UNCHANGED gen_deadline
       ELSE /\ UNCHANGED timed_out
            /\ IF gen_stream
               THEN response_queue_get_enter(enqueue_time)
               ELSE /\ gen_pc' = "done"
                    /\ gen_outcome' = "returned"
                    /\ UNCHANGED gen_deadline
    /\ UNCHANGED <<now, rr_input_queue, response_queue, enqueue_time,
                   request_outstanding, gen_stream, gen_yields, gen_request,
                   gen_first_read, published, arrived>>
    /\ UNCHANGED nonRRVars

\* (mutant) the streaming loop does not return after a last message.
next_after_yield_keeps_reading ==
    /\ gen_pc = "yielded"
    /\ IF ~gen_stream
       THEN /\ gen_pc' = "done"
            /\ gen_outcome' = "returned"
            /\ UNCHANGED gen_deadline
       ELSE response_queue_get_enter(enqueue_time)
    /\ UNCHANGED <<now, rr_input_queue, response_queue, enqueue_time,
                   request_outstanding, gen_stream, gen_yields, gen_request,
                   gen_first_read, published, arrived, timed_out>>
    /\ UNCHANGED nonRRVars

\* The consumer resumes the generator after a yield: lines 101-102 and 122
\* return after a last message, lines 111-113 compute the budget and the
\* streaming loop reads again.
next_after_yield ==
    /\ gen_pc = "yielded"
    /\ IF ~gen_stream \/ gen_yields[Len(gen_yields)].is_last
       THEN /\ gen_pc' = "done"
            /\ gen_outcome' = "returned"
            /\ UNCHANGED gen_deadline
       ELSE response_queue_get_enter(enqueue_time)
    /\ UNCHANGED <<now, rr_input_queue, response_queue, enqueue_time,
                   request_outstanding, gen_stream, gen_yields, gen_request,
                   gen_first_read, published, arrived, timed_out>>
    /\ UNCHANGED nonRRVars

\* The worker of the internal flow takes the request off its input queue
\* (ComponentBase.get_next_event) and publishes it.
internal_flow_get_next_event ==
    /\ rr_input_queue # <<>>
    /\ published' = published \cup {Head(rr_input_queue)}
    /\ rr_input_queue' = Tail(rr_input_queue)
    /\ UNCHANGED <<now, response_queue, enqueue_time, request_outstanding,
                   gen_pc, gen_stream, gen_deadline, gen_outcome, gen_yields,
                   gen_request, gen_first_read, arrived, timed_out>>
    /\ UNCHANGED nonRRVars

\* enqueue_response: a response to a published request reaches the tail of
\* the internal flow, which puts it on the response queue.
enqueue_response(r, last) ==
    /\ r \in published
    /\ Len(arrived) < MaxResponses
    /\ LET msg == [id |-> Len(arrived) + 1, request |-> r, last |-> last]
       IN /\ response_queue' = Append(response_queue, msg)
          /\ arrived' = Append(arrived, msg)
    /\ UNCHANGED <<now, rr_input_queue, enqueue_time, request_outstanding,
                   gen_pc, gen_stream, gen_deadline, gen_outcome, gen_yields,
                   gen_request, gen_first_read, published, timed_out>>
    /\ UNCHANGED nonRRVars

\* One tick of the clock.  A get whose timeout has elapsed raises Empty
\* before the clock has advanced by more than one tick.
Tick ==
    /\ now < MaxTime
    /\ ~(gen_pc = "get" /\ response_queue = <<>> /\ now > gen_deadline)
    /\ ~(gen_pc = "get" /\ response_queue # <<>>)
    /\ now' = now + 1
    /\ UNCHANGED <<rr_input_queue, response_queue, enqueue_time,
                   request_outstanding, gen_pc, gen_stream, gen_deadline,
                   gen_outcome, gen_yields, gen_request, gen_first_read,
                   published, arrived, timed_out>>
    /\ UNCHANGED nonRRVars

RRNext ==
    \/ \E stream \in BOOLEAN : do_broker_request_response(stream)
    \/ send_message_put
    \/ response_queue_get
    \/ response_queue_empty
    \/ next_after_yield
    \/ internal_flow_get_next_event
    \/ \E r \in 1..MaxRequests, last \in BOOLEAN : enqueue_response(r, last)
    \/ Tick

C7_TimeoutBudget ==
    ( /\ gen_pc \in {"put", "get"}
      /\ response_queue = <<>>
      /\ TakenSoFar = gen_first_read )
    => now - enqueue_time <= RequestExpiry + 1

\* C8: a response to a request that timed out is never yielded by a later
\* request.
C8_LateResponseDropped ==
    \A i \in DOMAIN gen_yields :
        gen_yields[i].msg.request \in timed_out
        => gen_yields[i].msg.request = gen_request

\* C9: a request with stream = false ends either with TimeoutError and no
\* yield, or after exactly one read of the response queue and exactly one
\* yield (message, True).
C9_NonStreamingOutcome ==
    (~gen_stream /\ gen_pc = "done") =>
        \/ gen_outcome = "TimeoutError" /\ gen_yields = <<>>
        \/ /\ gen_outcome = "returned"
           /\ Len(gen_yields) = 1
           /\ gen_yields[1].is_last
           /\ TakenSoFar = gen_first_read + 1

\* C10: a streaming request that ends before it has yielded a last message
\* ends with TimeoutError.
C10_StreamingTimeout ==
    ( /\ gen_stream
      /\ gen_pc = "done"
      /\ (gen_yields = <<>> \/ ~Last(gen_yields).is_last) )
    => gen_outcome = "TimeoutError"

(***************************************************************************)
(* Part III: the development broker                                        *)
(*                                                                         *)
(* Two classes named DevBroker exist: common/messaging/messaging.py (the   *)
(* one MessagingServiceBuilder instantiates) and                           *)
(* common/messaging/dev_broker_messaging.py.  broker_module says which one *)
(* is running.  Topics, subscriptions and regular expressions are strings, *)
(* modelled as sequences of characters.                                    *)
(***************************************************************************)
BrokerModules == {"messaging", "dev_broker_messaging"}

\* broker_properties of the broker under analysis.
queue_name == "q1"
properties_subscriptions == << <<"a", "/", ">">> >>

QueueIds == {"q1", "q2"}

SubscriptionTopics ==
    { <<"a", "/", "*", "/", "c">>, <<"a", "/", ">">>, <<"b", "/", ">">> }

Topics ==
    { <<"a">>, <<"b">>, <<"a", "/", "b">>, <<"a", "/", "b", "/", "c">>,
      <<"a", "/", "b", "/", "c", "/", "d">>, <<"b", "/", "c", "/", "d">> }

\* str.replace(old, new) for a one-character old.
RECURSIVE replace(_, _, _)
replace(s, old, new) ==
    IF s = <<>> THEN <<>>
    ELSE (IF Head(s) = old THEN new ELSE <<Head(s)>>)
         \o replace(Tail(s), old, new)

\* The regular-expression atoms the compiled subscriptions are made of:
\* the class [^/], the dot and literal characters, each followed by an
\* optional + or * quantifier.
RECURSIVE re_parse(_)
re_parse(r) ==
    IF r = <<>> THEN <<>>
    ELSE LET isClass == Len(r) >= 4 /\ SubSeq(r, 1, 4) = <<"[", "^", "/", "]">>
             width == IF isClass THEN 4 ELSE 1
             kind == IF isClass THEN "notslash"
                     ELSE IF r[1] = "." THEN "any" ELSE "literal"
             quantified == Len(r) > width /\ r[width + 1] \in {"+", "*"}
             quant == IF quantified THEN r[width + 1] ELSE "1"
             rest == SubSeq(r, width + (IF quantified THEN 2 ELSE 1), Len(r))
         IN <<[kind |-> kind, ch |-> r[1], quant |-> quant]>> \o re_parse(rest)

re_accepts(atom, ch) ==
    CASE atom.kind = "notslash" -> ch # "/"
      [] atom.kind = "any" -> TRUE
      [] OTHER -> ch = atom.ch

\* The whole of t is matched by the atoms (a pattern anchored by ^ and $).
RECURSIVE re_match_atoms(_, _)
re_match_atoms(atoms, t) ==
    IF atoms = <<>> THEN t = <<>>
    ELSE LET a == Head(atoms)
             first == t # <<>> /\ re_accepts(a, Head(t))
         IN CASE a.quant = "1" ->
                   first /\ re_match_atoms(Tail(atoms), Tail(t))
              [] a.quant = "*" ->
                   \/ re_match_atoms(Tail(atoms), t)
                   \/ first /\ re_match_atoms(atoms, Tail(t))
              [] OTHER ->
                   first /\ re_match_atoms(
                               <<[a EXCEPT !.quant = "*"]>> \o Tail(atoms),
                               Tail(t))

\* re.match(f"^{regex}$", topic) is not None
re_match(regex, topic) == re_match_atoms(re_parse(regex), topic)

\* dev_broker_messaging.DevBroker._subscription_to_regex
_subscription_to_regex(subscription) ==
    replace(replace(subscription, "*", <<"[", "^", "/", "]", "+">>),
            ">", <<".", "*">>)

\* messaging.DevBroker._topic_matches compiles the subscription on every
\* match, replacing > first and * second.
messaging_topic_regex(subscription) ==
    replace(replace(subscription, ">", <<".", "*">>),
            "*", <<"[", "^", "/", "]", "+">>)

\* DevBroker._topic_matches(subscription, topic) on a key of the table.
_topic_matches(module, subscription, topic) ==
    IF module = "messaging"
    THEN re_match(messaging_topic_regex(subscription), topic)
    ELSE re_match(subscription, topic)

\* The key under which subscribe files a subscription.
subscription_key(module, subscription) ==
    IF module = "messaging" THEN subscription
    ELSE _subscription_to_regex(subscription)

NoMessage == [payload |-> 0, topic |-> <<>>, publish |-> 0]

NoSend == [topic |-> <<>>, matched |-> {}, copies |-> <<>>]

BrokerInit ==
    /\ broker_module = "none"
    /\ connected = FALSE
    /\ subscriptions = <<>>
    /\ queues = <<>>
    /\ heap = <<>>
    /\ pub_ref = 0
    /\ held = [q \in QueueIds |-> NoMessage]
    /\ sent = NoSend
    /\ publishes = 0
    /\ subscribes = 0
    /\ connects = 0

\* A DevBroker is constructed: by MessagingServiceBuilder.build (the class of
\* messaging.py) or directly (the class of dev_broker_messaging.py), with
\* empty tables.
build(module) ==
    /\ broker_module = "none"
    /\ broker_module' = module
    /\ sent' = NoSend
    /\ UNCHANGED <<connected, subscriptions, queues, heap, pub_ref, held,
                   publishes, subscribes, connects>>
    /\ UNCHANGED nonBrokerVars

\* DevBroker.subscribe on the tables r = [subscriptions, queues]: create the
\* queue if it is new, append the queue id to the list of the key.
subscribe_tables(module, subscription, queue_id, r) ==
    LET key == subscription_key(module, subscription)
        present == IF key \in DOMAIN r.subscriptions
                   THEN r.subscriptions[key] ELSE <<>>
    IN [subscriptions |-> (key :> Append(present, queue_id)) @@ r.subscriptions,
        queues |-> IF queue_id \in DOMAIN r.queues THEN r.queues
                   ELSE (queue_id :> <<>>) @@ r.queues]

RECURSIVE subscribe_each(_, _, _, _)
subscribe_each(module, subs, queue_id, r) ==
    IF subs = <<>> THEN r
    ELSE subscribe_each(module, Tail(subs), queue_id,
                        subscribe_tables(module, Head(subs), queue_id, r))

\* DevBroker.connect: a fresh queue under queue_name, then one subscribe per
\* configured subscription.
connect ==
    /\ broker_module # "none"
    /\ connects < MaxConnects
    /\ connects' = connects + 1
    /\ connected' = TRUE
    /\ LET r0 == [subscriptions |-> subscriptions,
                  queues |-> (queue_name :> <<>>) @@ queues]
           r1 == subscribe_each(broker_module, properties_subscriptions,
                                queue_name, r0)
       IN /\ subscriptions' = r1.subscriptions
          /\ queues' = r1.queues
    /\ sent' = NoSend
    /\ UNCHANGED <<broker_module, heap, pub_ref, held, publishes, subscribes>>
    /\ UNCHANGED nonBrokerVars

\* DevBroker.disconnect
disconnect ==
    /\ connected
    /\ connected' = FALSE
    /\ sent' = NoSend
    /\ UNCHANGED <<broker_module, subscriptions, queues, heap, pub_ref, held,
                   publishes, subscribes, connects>>
    /\ UNCHANGED nonBrokerVars

\* DevBroker.subscribe (RuntimeError unless connected).
subscribe(subscription, queue_id) ==
    /\ connected
    /\ subscribes < MaxSubscribes
    /\ subscribes' = subscribes + 1
    /\ LET r == subscribe_tables(broker_module, subscription, queue_id,
                    [subscriptions |-> subscriptions, queues |-> queues])
       IN /\ subscriptions' = r.subscriptions
          /\ queues' = r.queues
    /\ sent' = NoSend
    /\ UNCHANGED <<broker_module, connected, heap, pub_ref, held, publishes,
                   connects>>
    /\ UNCHANGED nonBrokerVars

\* The keys of the table in the order the dictionary is iterated.
RECURSIVE keys_in_order(_)
keys_in_order(keys) ==
    IF keys = {} THEN <<>>
    ELSE LET k == CHOOSE x \in keys : TRUE
         IN <<k>> \o keys_in_order(keys \ {k})

\* The loop of _get_matching_queue_ids: extend the list with the queue ids
\* of every matching subscription.
RECURSIVE matching_queue_ids(_, _, _, _)
matching_queue_ids(module, subs, keys, topic) ==
    IF keys = <<>> THEN <<>>
    ELSE (IF _topic_matches(module, Head(keys), topic)
          THEN subs[Head(keys)] ELSE <<>>)
         \o matching_queue_ids(module, subs, Tail(keys), topic)

\* list(set(ids))
RECURSIVE remove_duplicates(_)
remove_duplicates(ids) ==
    IF ids = <<>> THEN <<>>
    ELSE LET rest == remove_duplicates(SubSeq(ids, 1, Len(ids) - 1))
         IN IF \E i \in 1..(Len(ids) - 1) : ids[i] = ids[Len(ids)]
            THEN rest ELSE Append(rest, ids[Len(ids)])

\* (mutant) the duplicates are not removed.
_get_matching_queue_ids_keeps_duplicates(module, subs, topic) ==
    matching_queue_ids(module, subs, keys_in_order(DOMAIN subs), topic)

\* DevBroker._get_matching_queue_ids
_get_matching_queue_ids(module, subs, topic) ==
    remove_duplicates(
        matching_queue_ids(module, subs, keys_in_order(DOMAIN subs), topic))

\* (mutant) the message object itself is handed over.
deepcopy_shares(h, msg) == [heap |-> h, msg |-> msg]

\* copy.deepcopy(message): a new payload object with the same content.
deepcopy(h, msg) ==
    [heap |-> Append(h, h[msg.payload]),
     msg |-> [msg EXCEPT !.payload = Len(h) + 1]]

\* The loop of send_message: put a deep copy on every matching queue.
RECURSIVE put_copies(_, _, _)
put_copies(ids, msg, r) ==
    IF ids = <<>> THEN r
    ELSE LET c == deepcopy(r.heap, msg)
         IN put_copies(Tail(ids), msg,
                [heap |-> c.heap,
                 queues |-> [r.queues EXCEPT ![Head(ids)] = Append(@, c.msg)]])

\* DevBroker.send_message (RuntimeError unless connected): the publisher
\* hands over a payload object of its own.
send_message(topic) ==
    /\ connected
    /\ publishes < MaxPublishes
    /\ publishes' = publishes + 1
    /\ LET ref == Len(heap) + 1
           msg == [payload |-> ref, topic |-> topic, publish |-> publishes + 1]
           ids == _get_matching_queue_ids(broker_module, subscriptions, topic)
           r == put_copies(ids, msg,
                    [heap |-> Append(heap, "original"), queues |-> queues])
       IN /\ pub_ref' = ref
          /\ heap' = r.heap
          /\ queues' = r.queues
          /\ sent' = [topic |-> topic,
                      matched |-> {k \in DOMAIN subscriptions :
                                    _topic_matches(broker_module, k, topic)},
                      copies |-> [q \in DOMAIN queues |->
                                    Len(r.queues[q]) - Len(queues[q])]]
    /\ UNCHANGED <<broker_module, connected, subscriptions, held, subscribes,
                   connects>>
    /\ UNCHANGED nonBrokerVars

\* DevBroker.receive_message returns the object that is on the queue.
receive_message(queue_id) ==
    /\ connected
    /\ queue_id \in DOMAIN queues
    /\ queues[queue_id] # <<>>
    /\ held' = [held EXCEPT ![queue_id] = Head(queues[queue_id])]
    /\ queues' = [queues EXCEPT ![queue_id] = Tail(@)]
    /\ sent' = NoSend
    /\ UNCHANGED <<broker_module, connected, subscriptions, heap, pub_ref,
                   publishes, subscribes, connects>>
    /\ UNCHANGED nonBrokerVars

\* The consumer of a queue changes the payload of the message it received.
mutate_received(queue_id) ==
    /\ held[queue_id] # NoMessage
    /\ heap[held[queue_id].payload] = "original"
    /\ heap' = [heap EXCEPT ![held[queue_id].payload] = queue_id]
    /\ sent' = NoSend
    /\ UNCHANGED <<broker_module, connected, subscriptions, queues, pub_ref,
                   held, publishes, subscribes, connects>>
    /\ UNCHANGED nonBrokerVars

\* The publisher changes the payload object it published.
mutate_published ==
    /\ pub_ref # 0
    /\ heap[pub_ref] = "original"
    /\ heap' = [heap EXCEPT ![pub_ref] = "publisher"]
    /\ sent' = NoSend
    /\ UNCHANGED <<broker_module, connected, subscriptions, queues, pub_ref,
                   held, publishes, subscribes, connects>>
    /\ UNCHANGED nonBrokerVars

BrokerNext ==
    \/ \E m \in BrokerModules : build(m)
    \/ connect
    \/ disconnect
    \/ \E s \in SubscriptionTopics, q \in QueueIds : subscribe(s, q)
    \/ \E t \in Topics : send_message(t)
    \/ \E q \in QueueIds : receive_message(q)
    \/ \E q \in QueueIds : mutate_received(q)
    \/ mutate_published

(***************************************************************************)
(* Part III: properties                                                    *)
(***************************************************************************)
\* The levels of a topic or subscription: the text between the slashes.
RECURSIVE levels(_)
levels(s) ==
    IF \A i \in DOMAIN s : s[i] # "/" THEN <<s>>
    ELSE LET i == CHOOSE j \in DOMAIN s :
                      s[j] = "/" /\ \A k \in 1..(j - 1) : s[k] # "/"
         IN <<SubSeq(s, 1, i - 1)>> \o levels(SubSeq(s, i + 1, Len(s)))

\* Level-wise matching: * is exactly one level, a final > is one or more
\* levels, anything else is literal; the whole topic must be matched.
RECURSIVE level_match(_, _)
level_match(sub, topic) ==
    IF sub = <<>> THEN topic = <<>>
    ELSE IF topic = <<>> THEN FALSE
    ELSE IF Head(sub) = <<">">> /\ Len(sub) = 1 THEN TRUE
    ELSE /\ Head(sub) = <<"*">> \/ Head(sub) = Head(topic)
         /\ level_match(Tail(sub), Tail(topic))

\* The subscription that was filed under a key of the table.
SourceOf(key) ==
    CHOOSE s \in SubscriptionTopics : subscription_key(broker_module, s) = key

\* C11: whenever a publish consults the subscription table, a subscription
\* matches the topic exactly when it matches it level by level ('*' is one
\* level, '>' a multi-level suffix, anchored at both ends): a/*/c matches
\* a/b/c and not a/b/c/d, a/> matches a/b/c and not a.
C11_TopicMatching ==
    sent # NoSend =>
      \A key \in DOMAIN subscriptions :
          (key \in sent.matched)
          <=> level_match(levels(SourceOf(key)), levels(sent.topic))

\* The queue has a subscription that matches the topic.
HasMatchingSubscription(q, topic) ==
    \E key \in DOMAIN subscriptions :
        /\ _topic_matches(broker_module, key, topic)
        /\ \E i \in DOMAIN subscriptions[key] : subscriptions[key][i] = q

\* C12: a publish puts exactly one copy of the message on every queue that
\* has at least one matching subscription and nothing on any other queue.
C12_OneCopyPerMatchingQueue ==
    sent # NoSend =>
      \A q \in DOMAIN queues :
          IF HasMatchingSubscription(q, sent.topic)
          THEN /\ sent.copies[q] = 1
               /\ Last(queues[q]).topic = sent.topic
               /\ Last(queues[q]).publish = publishes
          ELSE sent.copies[q] = 0

\* A queue reached through several matching entries (two subscriptions, or
\* one subscription added twice) got one copy; another queue got none.
C12_Witness ==
    /\ sent # NoSend
    /\ \E q \in DOMAIN queues :
          /\ sent.copies[q] = 1
          /\ Cardinality({<<k, i>> \in
                    sent.matched \X (1..(MaxSubscribes + MaxConnects)) :
                 i \in DOMAIN subscriptions[k] /\ subscriptions[k][i] = q}) >= 2
    /\ \E q \in DOMAIN queues : sent.copies[q] = 0

\* C13: the payload of a message waiting on a queue is as it was published,
\* the payload a consumer holds has been changed by nobody but that
\* consumer, and the publisher's payload by nobody but the publisher.
C13_NoAliasing ==
    /\ \A q \in DOMAIN queues : \A i \in DOMAIN queues[q] :
          heap[queues[q][i].payload] = "original"
    /\ \A q \in QueueIds :
          held[q] # NoMessage => heap[held[q].payload] \in {"original", q}
    /\ pub_ref # 0 => heap[pub_ref] \in {"original", "publisher"}

\* One consumer changed its copy of the last publish while another consumer
\* holds its copy of the same publish and the publisher its own object.
C13_Witness ==
    /\ pub_ref # 0
    /\ heap[pub_ref] = "original"
    /\ \E q1, q2 \in QueueIds :
          /\ q1 # q2
          /\ held[q1].publish = publishes
          /\ held[q2].publish = publishes
          /\ heap[held[q1].payload] = q1
          /\ heap[held[q2].payload] = "original"

\* What the DevBroker of a module does with a subscription from subscribe to
\* the match of a published topic.
accepts(module, subscription, topic) ==
    _topic_matches(module, subscription_key(module, subscription), topic)

\* C37: messaging.DevBroker and dev_broker_messaging.DevBroker accept the
\* same (subscription, topic) pairs: whatever topic is published, every
\* subscription with '*' or '>' matches it in both or in neither.
C37_SameAcceptedPairs ==
    sent # NoSend =>
      \A subscription \in SubscriptionTopics :
          accepts("messaging", subscription, sent.topic)
          <=> accepts("dev_broker_messaging", subscription, sent.topic)
(***************************************************************************)
(* Part IV: the command-and-control plane                                  *)
(*   command_control/entity_registry.py, request_router.py,                *)
(*   schema_validator.py, command_control_service.py, broker_adapter.py    *)
(*                                                                         *)
(* Paths, templates and patterns are strings (sequences of characters).    *)
(* A Python dict is a sequence of [k, v] entries in insertion order:       *)
(* assigning to a key that is present keeps the entry's position.          *)
(***************************************************************************)
dict_has(d, k) == \E i \in DOMAIN d : d[i].k = k

dict_get(d, k) == d[CHOOSE i \in DOMAIN d : d[i].k = k].v

dict_set(d, k, v) ==
    IF dict_has(d, k)
    THEN [i \in DOMAIN d |-> IF d[i].k = k THEN [k |-> k, v |-> v] ELSE d[i]]
    ELSE Append(d, [k |-> k, v |-> v])

dict_pop(d, k) == SelectSeq(d, LAMBDA e : e.k # k)

\* The position of the first ch in s at or after position i (0 if none).
RECURSIVE find_char(_, _, _)
find_char(s, ch, i) ==
    IF i > Len(s) THEN 0
    ELSE IF s[i] = ch THEN i ELSE find_char(s, ch, i + 1)

\* re.sub(r'\{([^}]+)\}', r'(?P<\1>[^/]+)', path_template)
RECURSIVE sub_params(_)
sub_params(s) ==
    IF s = <<>> THEN <<>>
    ELSE LET close == find_char(s, "}", 2)
         IN IF Head(s) = "{" /\ close > 2
            THEN <<"(", "?", "P", "<">> \o SubSeq(s, 2, close - 1)
                 \o <<">", "[", "^", "/", "]", "+", ")">>
                 \o sub_params(SubSeq(s, close + 1, Len(s)))
            ELSE <<Head(s)>> \o sub_params(Tail(s))

\* The atoms of a compiled path pattern: the named groups (?P<name>[^/]+)
\* and literal characters.
RECURSIVE pattern_atoms(_)
pattern_atoms(r) ==
    IF r = <<>> THEN <<>>
    ELSE IF Len(r) >= 4 /\ SubSeq(r, 1, 4) = <<"(", "?", "P", "<">>
    THEN LET gt == find_char(r, ">", 5)
         IN <<[group |-> TRUE, name |-> SubSeq(r, 5, gt - 1)]>>
            \o pattern_atoms(SubSeq(r, gt + 7, Len(r)))
    ELSE <<[group |-> FALSE, name |-> <<Head(r)>>]>> \o pattern_atoms(Tail(r))

\* re.compile raises on a group name that is defined twice.
compiles(pattern) ==
    LET atoms == pattern_atoms(pattern)
    IN \A i, j \in DOMAIN atoms :
          (atoms[i].group /\ atoms[j].group /\ atoms[i].name = atoms[j].name)
          => i = j

\* EntityRegistry._path_template_to_regex: the pattern string (the anchors
\* ^ and $ are left to the matcher, which matches the whole path).
_path_template_to_regex(path_template) == sub_params(path_template)

NoMatch == [matched |-> FALSE, groupdict |-> <<>>]

\* The number of characters other than / at the start of t.
RECURSIVE run_length(_)
run_length(t) ==
    IF t = <<>> \/ Head(t) = "/" THEN 0 ELSE 1 + run_length(Tail(t))

\* pattern.match(path) for an anchored pattern: the groups are greedy and
\* give back characters until the rest of the pattern matches.
RECURSIVE match_atoms(_, _)
RECURSIVE match_group(_, _, _)
match_group(atoms, t, n) ==
    IF n = 0 THEN NoMatch
    ELSE LET rest == match_atoms(Tail(atoms), SubSeq(t, n + 1, Len(t)))
         IN IF rest.matched
            THEN [matched |-> TRUE,
                  groupdict |-> <<[k |-> Head(atoms).name,
                                   v |-> SubSeq(t, 1, n)]>>
                                \o rest.groupdict]
            ELSE match_group(atoms, t, n - 1)

match_atoms(atoms, t) ==
    IF atoms = <<>>
    THEN [matched |-> t = <<>>, groupdict |-> <<>>]
    ELSE IF Head(atoms).group
    THEN match_group(atoms, t, run_length(t))
    ELSE IF t # <<>> /\ <<Head(t)>> = Head(atoms).name
    THEN match_atoms(Tail(atoms), Tail(t))
    ELSE NoMatch

pattern_match(pattern, path) == match_atoms(pattern_atoms(pattern), path)

\* ---- the entities, endpoints and requests of the analysis ----
GET == <<"G", "E", "T">>
POST == <<"P", "O", "S", "T">>

Verbs == {GET, POST}

TemplateAXBY ==
    <<"/", "a", "/", "{", "x", "}", "/", "b", "/", "{", "y", "}">>
TemplateAPBQ ==
    <<"/", "a", "/", "{", "p", "}", "/", "b", "/", "{", "q", "}">>
TemplateC == <<"/", "c">>
TemplateXX == <<"/", "d", "/", "{", "x", "}", "/", "{", "x", "}">>

\* A request_body_schema: the type and the list of required properties
\* (no schema: type "none").
NoSchema == [type |-> "none", required |-> <<>>]

\* handler_info of a method: the handler (a callable, or something that is
\* not callable) and the advisory schemas.
HandlerInfo(handler, path_params, body_schema) ==
    [handler |-> handler, path_params |-> path_params,
     query_params |-> <<>>, request_body_schema |-> body_schema]

NoHandlerInfo == HandlerInfo("None", <<>>, NoSchema)

IntegerX == <<[k |-> <<"x">>, v |-> [required |-> TRUE, type |-> "integer"]]>>

EndpointAXBY1 ==
    [path |-> TemplateAXBY,
     methods |-> <<[k |-> GET, v |-> HandlerInfo("h1", IntegerX, NoSchema)]>>]
EndpointAXBY2 ==
    [path |-> TemplateAXBY,
     methods |-> <<[k |-> GET, v |-> HandlerInfo("h2", <<>>, NoSchema)]>>]
EndpointAPBQ ==
    [path |-> TemplateAPBQ,
     methods |-> <<[k |-> POST,
                    v |-> HandlerInfo("h3", <<>>,
                              [type |-> "object", required |-> <<"name">>])]>>]
EndpointC ==
    [path |-> TemplateC,
     methods |-> <<[k |-> GET, v |-> HandlerInfo("not callable", <<>>, NoSchema)]>>]
EndpointXX ==
    [path |-> TemplateXX,
     methods |-> <<[k |-> GET, v |-> HandlerInfo("h1", <<>>, NoSchema)]>>]
EndpointNoMethods == [path |-> TemplateC, methods |-> <<>>]

EntityIds == {"E1", "E2"}

\* The entity_data records handed to register_entity.
EntityData ==
    { [entity_id |-> "E1", endpoints |-> <<EndpointAXBY1>>],
      [entity_id |-> "E2", endpoints |-> <<EndpointAXBY2>>],
      [entity_id |-> "E2", endpoints |-> <<EndpointAPBQ, EndpointC>>],
      [entity_id |-> "E1", endpoints |-> <<EndpointC, EndpointXX>>],
      [entity_id |-> "E2", endpoints |-> <<EndpointAXBY2, EndpointXX>>],
      [entity_id |-> "E2", endpoints |-> <<EndpointNoMethods>>],
      [entity_id |-> "", endpoints |-> <<EndpointC>>] }

NoResult == [op |-> "none"]

RegistryInit ==
    /\ entities = <<>>
    /\ endpoints = <<>>
    /\ endpoint_patterns = <<>>
    /\ cc_result = NoResult
    /\ before = NoResult
    /\ register_calls = 0

\* EntityRegistry._register_endpoint on the tables r = [endpoints,
\* endpoint_patterns, raised]: skip an endpoint without path or methods,
\* compile the template (which may raise) and file the endpoint under the
\* pattern string.
_register_endpoint(entity_id, endpoint, r) ==
    IF endpoint.path = <<>> \/ endpoint.methods = <<>> THEN r
    ELSE LET pattern_str == _path_template_to_regex(endpoint.path)
         IN IF ~compiles(pattern_str) THEN [r EXCEPT !.raised = TRUE]
            ELSE [r EXCEPT
                    !.endpoints = dict_set(@, pattern_str,
                        [entity_id |-> entity_id, path |-> endpoint.path,
                         methods |-> endpoint.methods]),
                    !.endpoint_patterns = dict_set(@, pattern_str, pattern_str)]

\* Lines 60-68 and 196-203: remove every endpoint filed for the entity.
RECURSIVE remove_endpoints_of(_, _)
remove_endpoints_of(entity_id, r) ==
    IF \A i \in DOMAIN r.endpoints : r.endpoints[i].v.entity_id # entity_id
    THEN r
    ELSE LET i == CHOOSE j \in DOMAIN r.endpoints :
                      r.endpoints[j].v.entity_id = entity_id
             pattern_str == r.endpoints[i].k
         IN remove_endpoints_of(entity_id,
                [r EXCEPT !.endpoints = dict_pop(@, pattern_str),
                          !.endpoint_patterns = dict_pop(@, pattern_str)])

\* The loop of register_entity, lines 52-70.
RECURSIVE register_endpoints(_, _, _)
register_endpoints(entity_id, eps, r) ==
    IF eps = <<>> THEN r
    ELSE LET r1 == _register_endpoint(entity_id, Head(eps), r)
         IN IF r1.raised THEN remove_endpoints_of(entity_id, r1)
            ELSE register_endpoints(entity_id, Tail(eps), r1)

TheRegistry ==
    [entities |-> entities, endpoints |-> endpoints,
     endpoint_patterns |-> endpoint_patterns]

\* EntityRegistry.register_entity
register_entity(entity_data) ==
    /\ register_calls < MaxRegisterCalls
    /\ register_calls' = register_calls + 1
    /\ LET entity_id == entity_data.entity_id
           r == register_endpoints(entity_id, entity_data.endpoints,
                    [endpoints |-> endpoints,
                     endpoint_patterns |-> endpoint_patterns,
                     raised |-> FALSE])
           ok == entity_id # "" /\ ~r.raised
       IN /\ IF entity_id = ""
             THEN UNCHANGED <<entities, endpoints, endpoint_patterns>>
             ELSE /\ endpoints' = r.endpoints
                  /\ endpoint_patterns' = r.endpoint_patterns
                  /\ entities' = IF r.raised THEN entities
                                 ELSE dict_set(entities, entity_id, entity_data)
          /\ cc_result' = [op |-> "register_entity", entity_id |-> entity_id,
                           returned |-> ok,
                           endpoint_failed |-> entity_id # "" /\ r.raised]
          /\ before' = IF ok
                       THEN [op |-> "register_entity", entity_id |-> entity_id,
                             registry |-> TheRegistry]
                       ELSE NoResult
    /\ UNCHANGED adapterVars
    /\ UNCHANGED nonCCVars

\* EntityRegistry.deregister_entity
deregister_entity(entity_id) ==
    /\ LET known == dict_has(entities, entity_id)
           r == remove_endpoints_of(entity_id,
                    [endpoints |-> endpoints,
                     endpoint_patterns |-> endpoint_patterns])
       IN /\ IF known
             THEN /\ entities' = dict_pop(entities, entity_id)
                  /\ endpoints' = r.endpoints
                  /\ endpoint_patterns' = r.endpoint_patterns
             ELSE UNCHANGED <<entities, endpoints, endpoint_patterns>>
          /\ cc_result' = [op |-> "deregister_entity", entity_id |-> entity_id,
                           returned |-> known,
                           after_register |->
                               /\ before.op = "register_entity"
                               /\ before.entity_id = entity_id]
    /\ before' = IF before.op = "register_entity"
                      /\ before.entity_id = entity_id
                   THEN before ELSE NoResult
    /\ UNCHANGED register_calls
    /\ UNCHANGED adapterVars
    /\ UNCHANGED nonCCVars

\* EntityRegistry.find_endpoint_handler as a function of the tables: the
\* first pattern, in the order of the dictionary, that matches the path.
RECURSIVE find_in(_, _, _, _)
find_in(patterns, eps, path, method) ==
    IF patterns = <<>>
    THEN [handler_info |-> NoHandlerInfo, path_params |-> <<>>,
          entity_id |-> "None", found |-> FALSE]
    ELSE LET m == pattern_match(Head(patterns).v, path)
             entry == dict_get(eps, Head(patterns).k)
         IN IF m.matched
            THEN [handler_info |-> IF dict_has(entry.methods, method)
                                   THEN dict_get(entry.methods, method)
                                   ELSE NoHandlerInfo,
                  path_params |-> m.groupdict,
                  entity_id |-> entry.entity_id,
                  found |-> dict_has(entry.methods, method)]
            ELSE find_in(Tail(patterns), eps, path, method)

find_endpoint_handler(path, method) ==
    find_in(endpoint_patterns, endpoints, path, method)

\* A caller looks an endpoint up; the answer is kept in cc_result.
find(path, method) ==
    /\ cc_result' = [op |-> "find_endpoint_handler", path |-> path,
                     method |-> method,
                     result |-> find_endpoint_handler(path, method)]
    /\ before' = NoResult
    /\ UNCHANGED <<entities, endpoints, endpoint_patterns, register_calls>>
    /\ UNCHANGED adapterVars
    /\ UNCHANGED nonCCVars

\* ---- properties of the registry ----
Values == {<<"7">>, <<"v">>, <<"1", "2">>}

\* The path /a/V1/b/V2
PathAB(v1, v2) == <<"/", "a", "/">> \o v1 \o <<"/", "b", "/">> \o v2

Paths ==
    {PathAB(<<"7">>, <<"1", "2">>), PathAB(<<"v">>, <<"7">>),
     <<"/", "c">>, <<"/", "d", "/", "1", "/", "1">>, <<"/", "e">>}

\* The entity is stored and its entity_data lists the endpoint.
RegisteredEndpoint(entity_id, endpoint) ==
    /\ dict_has(entities, entity_id)
    /\ \E i \in DOMAIN dict_get(entities, entity_id).endpoints :
          dict_get(entities, entity_id).endpoints[i] = endpoint

\* C15: for every endpoint registered by an entity with template
\* /a/{x}/b/{y} and verb GET, a GET lookup of /a/V1/b/V2 yields that
\* entity's handler with path_params {x: V1, y: V2}, whatever else is
\* registered.
C15_PathTemplateDispatch ==
    \A entity_id \in EntityIds : \A endpoint \in {EndpointAXBY1, EndpointAXBY2} :
      \A v1, v2 \in Values :
        ( /\ RegisteredEndpoint(entity_id, endpoint)
          /\ cc_result.op = "find_endpoint_handler"
          /\ cc_result.method = GET
          /\ cc_result.path = PathAB(v1, v2) )
        => cc_result.result =
              [handler_info |-> dict_get(endpoint.methods, GET),
               path_params |-> <<[k |-> <<"x">>, v |-> v1],
                                 [k |-> <<"y">>, v |-> v2]>>,
               entity_id |-> entity_id,
               found |-> TRUE]

\* C16: registering an entity (one the registry does not hold yet) and then
\* deregistering it leaves the registry exactly as it was before the
\* registration: the same entities, the same endpoints with the same owners
\* and handlers, the same endpoint patterns.
C16_RegisterDeregisterRoundTrip ==
    ( /\ cc_result.op = "deregister_entity"
      /\ cc_result.after_register
      /\ ~dict_has(before.registry.entities, cc_result.entity_id) )
    => TheRegistry = before.registry

\* C17: if registering any endpoint of an entity fails, register_entity
\* returns False, no endpoint of that entity remains in the registry and the
\* entity is not stored.
C17_RegistrationAllOrNothing ==
    (cc_result.op = "register_entity" /\ cc_result.endpoint_failed)
    => /\ cc_result.returned = FALSE
       /\ \A i \in DOMAIN endpoints :
             endpoints[i].v.entity_id # cc_result.entity_id
       /\ ~dict_has(entities, cc_result.entity_id)

(***************************************************************************)
(* RequestRouter and SchemaValidator                                       *)
(***************************************************************************)
Digits == {"0", "1", "2", "3", "4", "5", "6", "7", "8", "9"}

\* int(param_value) returns (otherwise it raises ValueError).
is_int(value) == value # <<>> /\ \A i \in DOMAIN value : value[i] \in Digits

\* The request bodies of the analysis: None, two objects and a string.
Bodies ==
    { [kind |-> "None", props |-> {}], [kind |-> "dict", props |-> {}],
      [kind |-> "dict", props |-> {"name"}], [kind |-> "str", props |-> {}] }

\* SchemaValidator.validate_path_params / validate_query_params for schemata
\* of integer and string parameters: TRUE when an error message is returned.
validate_params(params, schema) ==
    /\ schema # <<>>
    /\ \/ \E i \in DOMAIN schema :
             schema[i].v.required /\ ~dict_has(params, schema[i].k)
       \/ \E i \in DOMAIN params :
             /\ dict_has(schema, params[i].k)
             /\ dict_get(schema, params[i].k).type = "integer"
             /\ ~is_int(params[i].v)

\* SchemaValidator.validate_request_body for schemata of type object.
validate_request_body(body, schema) ==
    IF schema.required # <<>> /\ body.kind = "None" THEN TRUE
    ELSE IF body.kind = "None" THEN FALSE
    ELSE IF schema.type = "object" /\ body.kind # "dict" THEN TRUE
    ELSE /\ schema.type = "object"
         /\ \E i \in DOMAIN schema.required : schema.required[i] \notin body.props

\* RequestRouter._validate_parameters: TRUE when an error message is returned.
_validate_parameters(handler_info, path_params, query_params, body) ==
    \/ validate_params(path_params, handler_info.path_params)
    \/ validate_params(query_params, handler_info.query_params)
    \/ /\ handler_info.request_body_schema.type # "none"
       /\ validate_request_body(body, handler_info.request_body_schema)

callable(handler) == handler \in {"h1", "h2", "h3"}

\* RequestRouter.route_request; raises says whether the handler, if it is
\* called, raises.
route_request(request, raises) ==
    LET r == find_endpoint_handler(request.endpoint, request.method)
        invalid == _validate_parameters(r.handler_info, r.path_params,
                                        request.query_params, request.body)
        response(status_code, invoked) ==
            [request_id |-> request.request_id, status_code |-> status_code,
             invoked |-> invoked, handler |-> r.handler_info.handler,
             entity_id |-> r.entity_id, invalid |-> r.found /\ invalid]
    IN IF ~r.found THEN response(404, FALSE)
       ELSE IF ~callable(r.handler_info.handler) THEN response(500, FALSE)
       ELSE IF invalid THEN response(400, FALSE)
       ELSE IF ~dict_has(entities, r.entity_id) THEN response(500, FALSE)
       ELSE IF raises THEN response(500, TRUE)
       ELSE response(200, TRUE)

Request(request_id, method, endpoint, body) ==
    [request_id |-> request_id, method |-> method, endpoint |-> endpoint,
     query_params |-> <<>>, body |-> body]

\* The requests of the analysis: a GET without body for every path and a
\* POST with every body for the paths /a/V1/b/V2.
Requests ==
    { Request(<<"r", "1">>, GET, path, [kind |-> "None", props |-> {}]) :
        path \in Paths }
    \cup { Request(<<"r", "1">>, POST, PathAB(v, <<"7">>), body) :
             v \in {<<"v">>}, body \in Bodies }

\* A caller routes a request; the response is kept in cc_result.
route(request, raises) ==
    /\ LET response == route_request(request, raises)
       IN cc_result' = [op |-> "route_request", request |-> request,
                        response |-> response,
                        handler_raised |-> response.invoked /\ raises]
    /\ before' = NoResult
    /\ UNCHANGED <<entities, endpoints, endpoint_patterns, register_calls>>
    /\ UNCHANGED adapterVars
    /\ UNCHANGED nonCCVars

\* Some registered endpoint whose template matches the path has a handler
\* for the verb.
HandlerExists(path, method) ==
    \E i \in DOMAIN endpoints :
        /\ pattern_match(endpoint_patterns[i].v, path).matched
        /\ dict_has(endpoints[i].v.methods, method)

\* C18: every response of the router has a status code in {200, 400, 404,
\* 500}; 404 exactly when no handler exists for the (endpoint, verb); 400
\* exactly when a handler exists but validation fails, and then the handler
\* is not invoked; 500 exactly when the handler cannot be called or the
\* invoked handler raises; 200 otherwise.
C18_RouterStatusCodes ==
    cc_result.op = "route_request" =>
      LET response == cc_result.response
          exists == HandlerExists(cc_result.request.endpoint,
                                  cc_result.request.method)
          failed == \/ cc_result.handler_raised
                    \/ /\ response.handler # "None"
                       /\ \/ ~callable(response.handler)
                          \/ ~response.invalid
                             /\ ~dict_has(entities, response.entity_id)
      IN /\ response.status_code \in {200, 400, 404, 500}
         /\ response.status_code = 404 <=> ~exists
         /\ response.status_code = 400 <=> (exists /\ ~failed /\ response.invalid)
         /\ response.status_code = 400 => ~response.invoked
         /\ response.status_code = 500 <=> failed
         /\ response.status_code = 200
              <=> (exists /\ ~failed /\ ~response.invalid)

\* C33: the router answers 404 for an (endpoint, verb) only if no registered
\* endpoint whose template matches the path supports the verb; when several
\* registered templates match one path, a handler for the verb on any of
\* them is found.
C33_NotFoundOnlyWithoutHandler ==
    ( /\ cc_result.op = "route_request"
      /\ cc_result.response.status_code = 404 )
    => \A i \in DOMAIN endpoints :
           pattern_match(endpoint_patterns[i].v,
                         cc_result.request.endpoint).matched
           => ~dict_has(endpoints[i].v.methods, cc_result.request.method)

\* C34: a call register_entity(A), whether it returns True or False, leaves
\* every endpoint owned by another entity B in the registry, under the same
\* pattern, with the same owner, path and methods.
C34_RegisterKeepsOthersEndpoints ==
    [][ register_calls' # register_calls
        => \A i \in DOMAIN endpoints :
              endpoints[i].v.entity_id # cc_result'.entity_id
              => /\ dict_has(endpoints', endpoints[i].k)
                 /\ dict_get(endpoints', endpoints[i].k) = endpoints[i].v
                 /\ dict_has(endpoint_patterns', endpoints[i].k) ]_vars

(***************************************************************************)
(* BrokerAdapter and CommandControlService.handle_request                  *)
(***************************************************************************)
namespace == <<"s", "o", "l", "a", "c", "e">>
SacControl == <<"s", "a", "c", "-", "c", "o", "n", "t", "r", "o", "l">>

\* The default topic_prefix and a configured one.
DefaultTopicPrefix ==
    <<"s", "a", "c", "-", "c", "o", "n", "t", "r", "o", "l", "/", "v", "1">>
ConfiguredTopicPrefix == <<"c", "t", "l", "/", "v", "2">>

TopicPrefixes == {DefaultTopicPrefix, ConfiguredTopicPrefix}

\* The flows of the connector that take messages (flow_input_queues).
FlowNames == {"response_flow"}

RECURSIVE join(_, _)
join(parts, sep) ==
    IF parts = <<>> THEN <<>>
    ELSE IF Len(parts) = 1 THEN Head(parts)
    ELSE Head(parts) \o sep \o join(Tail(parts), sep)

\* topic.split('/')
split(topic) == levels(topic)

startswith(s, prefix) ==
    Len(s) >= Len(prefix) /\ SubSeq(s, 1, Len(prefix)) = prefix

\* BrokerAdapter._is_command_topic
_is_command_topic(topic) ==
    LET parts == split(topic)
    IN /\ Len(parts) >= 4
       /\ parts[1] = namespace
       /\ parts[2] = SacControl
       /\ startswith(parts[3], <<"v">>)

\* BrokerAdapter._parse_command_topic: (method, endpoint), or (None, None).
_parse_command_topic(topic) ==
    LET parts == split(topic)
    IN IF Len(parts) < 5 THEN [method |-> <<>>, endpoint |-> <<>>]
       ELSE [method |-> parts[4],
             endpoint |-> <<"/">> \o join(SubSeq(parts, 5, Len(parts)), <<"/">>)]

\* A payload is a dict (whose missing entries are <<>>) or a string.
Payload(kind, request_id, reply_to_topic_prefix, body) ==
    [kind |-> kind, request_id |-> request_id,
     reply_to_topic_prefix |-> reply_to_topic_prefix, body |-> body]

Uuid4 == <<"u", "u", "i", "d">>

\* BrokerAdapter._create_request for a dict payload.
_create_request(method, endpoint, payload, user_properties) ==
    [request_id |-> IF payload.request_id # <<>> THEN payload.request_id
                    ELSE Uuid4,
     method |-> method, endpoint |-> endpoint, query_params |-> <<>>,
     body |-> payload.body,
     reply_to_topic_prefix |->
         IF payload.reply_to_topic_prefix # <<>>
         THEN payload.reply_to_topic_prefix
         ELSE user_properties]

\* CommandControlService._validate_request: request_id, method and endpoint
\* are keys of every request the adapter builds.
_validate_request(request) == TRUE

\* CommandControlService.handle_request
handle_request(request, raises) ==
    IF ~_validate_request(request)
    THEN [request_id |-> request.request_id, status_code |-> 400,
          invoked |-> FALSE, handler |-> "None", entity_id |-> "None",
          invalid |-> FALSE]
    ELSE route_request(
             Request(request.request_id, request.method, request.endpoint,
                     request.body), raises)

\* BrokerAdapter.publish_response: the messages handed to the response flow.
publish_response(response, reply_to_topic_prefix) ==
    IF response_flow_name = "None" THEN <<>>
    ELSE IF reply_to_topic_prefix = <<>> THEN <<>>
    ELSE IF response_flow_name \notin FlowNames THEN <<>>
    ELSE <<[topic |-> join(<<reply_to_topic_prefix, topic_prefix,
                             <<"r", "e", "s", "p", "o", "n", "s", "e">>, response.request_id>>, <<"/">>),
            payload |-> response]>>

\* The handler installed with set_command_handler: it passes the request to
\* the service and publishes the response to the reply topic derived from
\* the request.
handle_command(request, raises) ==
    publish_response(handle_request(request, raises),
                     request.reply_to_topic_prefix)

NoEmit == [entity_id |-> "None", trace_level |-> "None", published |-> <<>>]

\* The constructor of BrokerAdapter with the configured topic_prefix.  (A
\* change of the adapter's configuration clears the records of the last
\* calls, which describe the configuration they ran under.)
BrokerAdapter(prefix) ==
    /\ topic_prefix = <<>>
    /\ topic_prefix' = prefix
    /\ UNCHANGED <<response_flow_name, command_handler>>
    /\ cc_result' = NoResult
    /\ before' = NoResult
    /\ emitted' = NoEmit
    /\ UNCHANGED <<entities, endpoints, endpoint_patterns, register_calls>>
    /\ UNCHANGED <<traceConfig, context>>
    /\ UNCHANGED nonControlVars

\* BrokerAdapter.setup_response_flow
setup_response_flow(flow_name) ==
    /\ topic_prefix # <<>>
    /\ response_flow_name = "None"
    /\ response_flow_name' = flow_name
    /\ UNCHANGED <<topic_prefix, command_handler>>
    /\ cc_result' = NoResult
    /\ before' = NoResult
    /\ emitted' = NoEmit
    /\ UNCHANGED <<entities, endpoints, endpoint_patterns, register_calls>>
    /\ UNCHANGED <<traceConfig, context>>
    /\ UNCHANGED nonControlVars

\* BrokerAdapter.set_command_handler
set_command_handler(handler) ==
    /\ topic_prefix # <<>>
    /\ command_handler = "None"
    /\ command_handler' = handler
    /\ UNCHANGED <<topic_prefix, response_flow_name>>
    /\ cc_result' = NoResult
    /\ before' = NoResult
    /\ emitted' = NoEmit
    /\ UNCHANGED <<entities, endpoints, endpoint_patterns, register_calls>>
    /\ UNCHANGED <<traceConfig, context>>
    /\ UNCHANGED nonControlVars

\* BrokerAdapter.handle_message, down to the publication of the response;
\* what it received and what it published is kept in cc_result.
handle_message(topic, payload, user_properties, raises) ==
    /\ topic_prefix # <<>>
    /\ LET parsed == _parse_command_topic(topic)
           request == _create_request(parsed.method, parsed.endpoint, payload,
                                      user_properties)
           messages ==
               IF ~_is_command_topic(topic) THEN <<>>
               ELSE IF parsed.method = <<>> \/ parsed.endpoint = <<>> THEN <<>>
               ELSE IF payload.kind # "dict" THEN <<>>
               ELSE IF command_handler = "None" THEN <<>>
               ELSE handle_command(request, raises)
       IN cc_result' = [op |-> "handle_message", topic |-> topic,
                        payload |-> payload,
                        user_properties |-> user_properties,
                        published |-> messages]
    /\ before' = NoResult
    /\ UNCHANGED <<entities, endpoints, endpoint_patterns, register_calls>>
    /\ UNCHANGED adapterVars
    /\ UNCHANGED nonCCVars

\* The messages of the analysis.
CommandTopics ==
    { join(<<namespace, DefaultTopicPrefix, GET, <<"a">>, <<"7">>, <<"b">>, <<"1", "2">>>>, <<"/">>),
      join(<<namespace, DefaultTopicPrefix, POST, <<"a">>, <<"v">>, <<"b">>, <<"7">>>>, <<"/">>),
      join(<<namespace, ConfiguredTopicPrefix, GET, <<"c">>>>, <<"/">>),
      join(<<namespace, DefaultTopicPrefix, GET>>, <<"/">>),
      join(<<<<"o", "t", "h", "e", "r">>, DefaultTopicPrefix, GET, <<"c">>>>, <<"/">>) }

ReplyPrefix == <<"r", "e", "p", "l", "y">>

CommandPayloads ==
    { Payload("dict", <<"r", "1">>, ReplyPrefix, [kind |-> "None", props |-> {}]),
      Payload("dict", <<>>, <<>>, [kind |-> "dict", props |-> {"name"}]),
      Payload("str", <<>>, <<>>, [kind |-> "None", props |-> {}]) }

\* The user properties of a message: its reply_to_topic_prefix, if any.
UserProperties == {<<>>, ReplyPrefix}

\* A command topic of the topic scheme: <namespace>/<prefix>/<verb>/<path>.
IsCommandTopic(topic) ==
    \E verb \in Verbs :
        /\ startswith(topic, join(<<namespace, topic_prefix, verb>>, <<"/">>)
                             \o <<"/">>)
        /\ Len(topic) > Len(join(<<namespace, topic_prefix, verb>>, <<"/">>)) + 1

\* The request_id and the reply prefix the request carries.
RequestIdOf(payload) ==
    IF payload.request_id # <<>> THEN payload.request_id ELSE Uuid4

ReplyPrefixOf(payload, user_properties) ==
    IF payload.reply_to_topic_prefix # <<>>
    THEN payload.reply_to_topic_prefix ELSE user_properties

\* C19: for every request received on a command topic (a request that names
\* its reply prefix, with the response flow and the command handler set up),
\* the response produced for it is published exactly once, to the topic
\* <reply-prefix>/<prefix>/response/<request-id> derived from the request.
C19_ResponsePublishedOnce ==
    ( /\ cc_result.op = "handle_message"
      /\ IsCommandTopic(cc_result.topic)
      /\ cc_result.payload.kind = "dict"
      /\ ReplyPrefixOf(cc_result.payload, cc_result.user_properties) # <<>>
      /\ response_flow_name \in FlowNames
      /\ command_handler # "None" )
    => /\ Len(cc_result.published) = 1
       /\ cc_result.published[1].topic =
             join(<<ReplyPrefixOf(cc_result.payload, cc_result.user_properties),
                    topic_prefix, <<"r", "e", "s", "p", "o", "n", "s", "e">>,
                    RequestIdOf(cc_result.payload)>>, <<"/">>)
       /\ cc_result.published[1].payload.request_id =
             RequestIdOf(cc_result.payload)
       /\ cc_result.published[1].payload.status_code \in {200, 400, 404, 500}

AdapterInit ==
    /\ topic_prefix = <<>>
    /\ response_flow_name = "None"
    /\ command_handler = "None"

CCInit == RegistryInit /\ AdapterInit

CCNext ==
    \/ \E entity_data \in EntityData : register_entity(entity_data)
    \/ \E entity_id \in EntityIds : deregister_entity(entity_id)
    \/ \E path \in Paths, method \in Verbs : find(path, method)
    \/ \E request \in Requests, raises \in BOOLEAN : route(request, raises)

\* The entities that register while the adapter is under analysis.
AdapterEntityData ==
    { [entity_id |-> "E1", endpoints |-> <<EndpointAXBY1>>],
      [entity_id |-> "E2", endpoints |-> <<EndpointAPBQ, EndpointC>>] }

AdapterNext ==
    \/ \E entity_data \in AdapterEntityData : register_entity(entity_data)
    \/ \E prefix \in TopicPrefixes : BrokerAdapter(prefix)
    \/ setup_response_flow("response_flow")
    \/ set_command_handler("handle_command")
    \/ \E topic \in CommandTopics, payload \in CommandPayloads,
          user_properties \in UserProperties, raises \in BOOLEAN :
          handle_message(topic, payload, user_properties, raises)


(***************************************************************************)
(* Part V: command_control/tracing.py, the tracing system                  *)
(***************************************************************************)
TraceLevel == {"DEBUG", "INFO", "WARN", "ERROR"}

\* The level strings callers pass: the four names and one that is none.
LevelStrings == TraceLevel \cup {"VERBOSE"}

TraceEntities == {"E1", "E2"}

TraceInit ==
    /\ enabled = TRUE
    /\ default_level = "INFO"
    /\ entity_levels = [e \in TraceEntities |-> "unset"]
    /\ broker_adapter = FALSE
    /\ emitted = NoEmit

\* TracingSystem._get_level_value
_get_level_value_warn_as_info(level) ==
    CASE level = "DEBUG" -> 0
      [] level = "INFO" -> 1
      [] level = "WARN" -> 1
      [] level = "ERROR" -> 3
      [] OTHER -> 0

_get_level_value(level) ==
    CASE level = "DEBUG" -> 0
      [] level = "INFO" -> 1
      [] level = "WARN" -> 2
      [] level = "ERROR" -> 3
      [] OTHER -> 0

\* BrokerAdapter.publish_trace: the messages handed to the response flow.
publish_trace(entity_id, trace_level, trace_event) ==
    IF response_flow_name = "None" THEN <<>>
    ELSE IF response_flow_name \notin FlowNames THEN <<>>
    ELSE <<[topic |-> <<namespace, topic_prefix, "trace", entity_id, trace_level>>,
            entity_id |-> entity_id, trace_level |-> trace_level,
            stage |-> trace_event.stage, error |-> trace_event.error]>>

\* TracingSystem._publish_trace
_publish_trace(entity_id, level, trace_event) ==
    IF ~broker_adapter THEN <<>>
    ELSE publish_trace(entity_id, level, trace_event)

\* An exception: its type, its message and the frames of its traceback
\* object, which lives at some address.
NoError == [type |-> "None", message |-> "None", traceback |-> <<>>]

\* The body of TracingSystem.emit_trace: the messages it publishes.
emit(entity_id, trace_level, stage, error) ==
    LET entity_level == IF entity_levels[entity_id] # "unset"
                        THEN entity_levels[entity_id] ELSE default_level
        level == IF trace_level \in TraceLevel THEN trace_level ELSE "INFO"
    IN IF ~enabled THEN <<>>
       ELSE IF _get_level_value(level) < _get_level_value(entity_level)
       THEN <<>>
       ELSE _publish_trace(entity_id, level,
                           [stage |-> stage, error |-> error])

\* TracingSystem.set_broker_adapter
set_broker_adapter ==
    /\ topic_prefix # <<>>
    /\ ~broker_adapter
    /\ broker_adapter' = TRUE
    /\ emitted' = NoEmit
    /\ UNCHANGED <<enabled, default_level, entity_levels, context>>
    /\ UNCHANGED nonTraceVars

\* TracingSystem.set_enabled
set_enabled(flag) ==
    /\ enabled' = flag
    /\ emitted' = NoEmit
    /\ UNCHANGED <<default_level, entity_levels, broker_adapter, context>>
    /\ UNCHANGED nonTraceVars

\* TracingSystem.set_default_level: a string that names no level is ignored.
set_default_level(level) ==
    /\ default_level' = IF level \in TraceLevel THEN level ELSE default_level
    /\ emitted' = NoEmit
    /\ UNCHANGED <<enabled, entity_levels, broker_adapter, context>>
    /\ UNCHANGED nonTraceVars

\* TracingSystem.set_entity_level
set_entity_level(entity_id, level) ==
    /\ entity_levels' = IF level \in TraceLevel
                        THEN [entity_levels EXCEPT ![entity_id] = level]
                        ELSE entity_levels
    /\ emitted' = NoEmit
    /\ UNCHANGED <<enabled, default_level, broker_adapter, context>>
    /\ UNCHANGED nonTraceVars

\* TracingSystem.emit_trace
emit_trace(entity_id, trace_level) ==
    /\ emitted' = [entity_id |-> entity_id, trace_level |-> trace_level,
                   published |-> emit(entity_id, trace_level, "event", NoError)]
    /\ UNCHANGED <<traceConfig, context>>
    /\ UNCHANGED nonTraceVars

TraceNext ==
    \/ \E prefix \in TopicPrefixes : BrokerAdapter(prefix)
    \/ setup_response_flow("response_flow")
    \/ set_broker_adapter
    \/ \E flag \in BOOLEAN : set_enabled(flag)
    \/ \E level \in LevelStrings : set_default_level(level)
    \/ \E entity_id \in TraceEntities, level \in LevelStrings :
          set_entity_level(entity_id, level)
    \/ \E entity_id \in TraceEntities, level \in LevelStrings :
          emit_trace(entity_id, level)

\* ---- properties of the tracing system ----
\* DEBUG = 0 < INFO = 1 < WARN = 2 < ERROR = 3
value(level) ==
    CASE level = "DEBUG" -> 0
      [] level = "INFO" -> 1
      [] level = "WARN" -> 2
      [] level = "ERROR" -> 3

\* The entity's override if one is set and the default level otherwise.
effective_level(entity_id) ==
    IF entity_levels[entity_id] # "unset"
    THEN entity_levels[entity_id] ELSE default_level

\* A trace at a level L that is one of the four levels was emitted.
TraceEmitted == emitted.trace_level \in TraceLevel

\* The trace of the last emit_trace call was published.
TracePublished ==
    /\ Len(emitted.published) = 1
    /\ emitted.published[1].entity_id = emitted.entity_id
    /\ emitted.published[1].trace_level = emitted.trace_level

\* The tracing system is switched on and has a way to publish.
CanPublish ==
    enabled /\ broker_adapter /\ response_flow_name \in FlowNames

\* C20: while tracing is enabled and the tracing system has a broker adapter
\* with a response flow, a trace at level L from entity E is published if
\* and only if value(L) >= value(effective_level(E)); otherwise no trace is
\* published.
C20_TraceLevelFilter ==
    TraceEmitted =>
      IF CanPublish
      THEN TracePublished
           <=> value(emitted.trace_level)
                 >= value(effective_level(emitted.entity_id))
      ELSE emitted.published = <<>>

\* A WARN trace of an entity whose override is WARN was published while the
\* default level is ERROR.
C20_Witness ==
    /\ TraceEmitted
    /\ CanPublish
    /\ TracePublished
    /\ emitted.trace_level = "WARN"
    /\ entity_levels[emitted.entity_id] = "WARN"
    /\ default_level = "ERROR"

\* C20 as stated: a trace at level L from entity E is published if and only
\* if value(L) >= value(effective_level(E)).
C20_TraceLevelFilter_Original ==
    TraceEmitted =>
      ( TracePublished
        <=> value(emitted.trace_level)
              >= value(effective_level(emitted.entity_id)) )


(***************************************************************************)
(* TraceContext                                                            *)
(***************************************************************************)
\* The exceptions a traced operation raises: the type, the message and the
\* traceback object (its frames, and the address the object lives at).
NoException ==
    [type |-> "None", message |-> "None",
     tb |-> [frames |-> <<>>, address |-> "None"]]

Exceptions ==
    { [type |-> "ValueError", message |-> "Test exception",
       tb |-> [frames |-> <<"handle_request", "route_request">>,
               address |-> "0x7f986b8df4c0"]] }

\* str(exc_tb): the default representation of a traceback object.
str_traceback(exc_tb) == <<"<traceback object at ", exc_tb.address, ">">>

\* str(exc_val)
str_exception(exc_val) == exc_val.message

\* The emit_trace call of a context: its arguments and what was published.
NoCall == [called |-> FALSE, trace_level |-> "None", error |-> NoError,
           published |-> <<>>]

Call(entity_id, trace_level, stage, error) ==
    [called |-> TRUE, trace_level |-> trace_level, error |-> error,
     published |-> emit(entity_id, trace_level, stage, error)]

NoContext ==
    [state |-> "none", entity_id |-> "None", trace_level |-> "None",
     start |-> NoCall, completion |-> NoCall, exc |-> NoException,
     propagated |-> FALSE]

ContextInit == context = NoContext

\* TracingSystem.create_trace_context / TraceContext.__init__
create_trace_context(entity_id, trace_level) ==
    /\ context.state \in {"none", "closed"}
    /\ context' = [NoContext EXCEPT !.state = "created",
                                    !.entity_id = entity_id,
                                    !.trace_level = trace_level]
    /\ emitted' = NoEmit
    /\ UNCHANGED traceConfig
    /\ UNCHANGED nonTraceVars

\* TraceContext.__enter__
__enter__ ==
    /\ context.state = "created"
    /\ LET call == Call(context.entity_id, context.trace_level, "start", NoError)
       IN /\ context' = [context EXCEPT !.state = "open", !.start = call]
          /\ emitted' = [entity_id |-> context.entity_id,
                         trace_level |-> context.trace_level,
                         published |-> call.published]
    /\ UNCHANGED traceConfig
    /\ UNCHANGED nonTraceVars

\* TraceContext.__exit__(exc_type, exc_val, exc_tb); it returns False, so an
\* exception of the scope goes on to the caller.
__exit__(exc) ==
    /\ context.state = "open"
    /\ LET error == IF exc.type # "None"
                    THEN [message |-> str_exception(exc), type |-> exc.type,
                          traceback |-> str_traceback(exc.tb)]
                    ELSE NoError
           trace_level == IF error = NoError THEN context.trace_level
                          ELSE "ERROR"
           call == Call(context.entity_id, trace_level, "completion", error)
           suppressed == FALSE
       IN /\ context' = [context EXCEPT
                           !.state = "closed", !.completion = call,
                           !.exc = exc,
                           !.propagated = exc.type # "None" /\ ~suppressed]
          /\ emitted' = [entity_id |-> context.entity_id,
                         trace_level |-> trace_level,
                         published |-> call.published]
    /\ UNCHANGED traceConfig
    /\ UNCHANGED nonTraceVars

\* The entities whose operations are traced with a context.
ContextEntities == {"E1"}

ContextNext ==
    \/ BrokerAdapter(DefaultTopicPrefix)
    \/ setup_response_flow("response_flow")
    \/ set_broker_adapter
    \/ \E flag \in BOOLEAN : set_enabled(flag)
    \/ \E level \in LevelStrings : set_default_level(level)
    \/ \E entity_id \in ContextEntities, level \in LevelStrings :
          set_entity_level(entity_id, level)
    \/ \E entity_id \in ContextEntities, level \in LevelStrings :
          create_trace_context(entity_id, level)
    \/ __enter__
    \/ \E exc \in Exceptions \cup {NoException} : __exit__(exc)

\* C21: if an exception propagates through a TraceContext scope, the
\* completion event of the context is emitted at level ERROR, carries the
\* error's type, message and stack, and the exception goes on to the caller
\* of the scope.
C21_ExceptionCompletion ==
    (context.state = "closed" /\ context.exc.type # "None")
    => /\ context.completion.called
       /\ context.completion.trace_level = "ERROR"
       /\ context.completion.error.type = context.exc.type
       /\ context.completion.error.message = context.exc.message
       /\ context.completion.error.traceback = context.exc.tb.frames
       /\ context.propagated

\* C38: for every TraceContext, a published completion event comes after a
\* published start event of the same context (the same request_id),
\* whatever the enabled flag, the default level and the per-entity levels
\* are and whether or not the scope exits with an exception.
C38_CompletionAfterStart ==
    (context.state = "closed" /\ context.completion.published # <<>>)
    => context.start.published # <<>>

(***************************************************************************)
(* Part VI: the retry back-off of ComponentBase.run                        *)
(*                                                                         *)
(* One worker over a long run of iterations.  An iteration either gets     *)
(* through (with or without an event) and resets the delay, or raises: the *)
(* worker then waits event_message_repeat_sleep_time on the stop signal    *)
(* and grows the delay.                                                    *)
(***************************************************************************)
BackoffInit ==
    /\ event_message_repeat_sleep_time = 1
    /\ slept = 0
    /\ consecutive_failures = 0
    /\ iterations = 0

\* Lines 100-104: get_next_event and process_event return.
iteration_succeeds ==
    /\ iterations < MaxIterations
    /\ iterations' = iterations + 1
    /\ event_message_repeat_sleep_time' = reset_sleep_time
    /\ consecutive_failures' = 0
    /\ UNCHANGED slept
    /\ UNCHANGED nonBackoffVars

\* Lines 105-118: the iteration raises (AssertionError or any Exception).
iteration_raises ==
    /\ iterations < MaxIterations
    /\ iterations' = iterations + 1
    /\ slept' = event_message_repeat_sleep_time
    /\ event_message_repeat_sleep_time' =
           grow_sleep_time(event_message_repeat_sleep_time)
    /\ consecutive_failures' = consecutive_failures + 1
    /\ UNCHANGED nonBackoffVars

BackoffNext ==
    \/ iteration_succeeds
    \/ iteration_raises

\* C22: under repeated exceptions the sleep between retries doubles after
\* each consecutive failure, never exceeds 60 s, and is reset to 1 s by the
\* first successful iteration.
C22_Backoff ==
    /\ slept <= 60
    /\ event_message_repeat_sleep_time <= 60
    /\ consecutive_failures = 0 => event_message_repeat_sleep_time = 1
    /\ (consecutive_failures > 0 /\ 2 * slept <= 60)
          => event_message_repeat_sleep_time = 2 * slept

\* Six failures in a row: the seventh wait is about to be made.
C22_Witness == consecutive_failures = 6

(***************************************************************************)
(* Part VII: the connection status of the persistent broker                *)
(*                                                                         *)
(* _connection_status is one module-level variable, written by every       *)
(* SolaceMessaging object of the process and by the ServiceEventHandler of *)
(* each.  The vendor's MessagingService is the environment: it is "None"   *)
(* before connect() builds it, and then down, up or reconnecting; it       *)
(* delivers on_reconnecting only while up, and on_reconnected and          *)
(* on_service_interrupted only while reconnecting.                         *)
(***************************************************************************)
DISCONNECTED == "DISCONNECTED"
CONNECTED == "CONNECTED"
RECONNECTING == "RECONNECTING"
ConnectionStatus == {RECONNECTING, CONNECTED, DISCONNECTED}

Connections == 1 .. NumConnections

ConnectionInit ==
    /\ _connection_status = DISCONNECTED
    /\ messaging_service = [m \in Connections |-> "None"]

change_connection_status(status) == _connection_status' = status

\* SolaceMessaging.connect: builds the service and waits for connect_async;
\* done is the outcome (FALSE: result() is None, connect returns False).
SolaceMessaging_connect(m, done) ==
    /\ messaging_service[m] \in {"None", "down"}
    /\ IF done
          THEN /\ messaging_service' = [messaging_service EXCEPT ![m] = "up"]
               /\ change_connection_status(CONNECTED)
          ELSE /\ messaging_service' = [messaging_service EXCEPT ![m] = "down"]
               /\ UNCHANGED _connection_status
    /\ UNCHANGED nonConnVars

on_reconnecting(m) ==
    /\ messaging_service[m] = "up"
    /\ messaging_service' = [messaging_service EXCEPT ![m] = "reconnecting"]
    /\ change_connection_status(RECONNECTING)
    /\ UNCHANGED nonConnVars

on_reconnected(m) ==
    /\ messaging_service[m] = "reconnecting"
    /\ messaging_service' = [messaging_service EXCEPT ![m] = "up"]
    /\ change_connection_status(CONNECTED)
    /\ UNCHANGED nonConnVars

on_service_interrupted(m) ==
    /\ messaging_service[m] = "reconnecting"
    /\ messaging_service' = [messaging_service EXCEPT ![m] = "down"]
    /\ change_connection_status(DISCONNECTED)
    /\ UNCHANGED nonConnVars

\* SolaceMessaging.disconnect of a service that connect() has brought up.
\* (On an object that never connected, messaging_service is None, the
\* attribute error is swallowed and nothing changes.)
SolaceMessaging_disconnect(m) ==
    /\ messaging_service[m] \in {"up", "reconnecting"}
    /\ messaging_service' = [messaging_service EXCEPT ![m] = "down"]
    /\ change_connection_status(DISCONNECTED)
    /\ UNCHANGED nonConnVars

ConnectionNext ==
    \E m \in Connections :
        \/ \E done \in BOOLEAN : SolaceMessaging_connect(m, done)
        \/ on_reconnecting(m)
        \/ on_reconnected(m)
        \/ on_service_interrupted(m)
        \/ SolaceMessaging_disconnect(m)

FourTransitions ==
    { <<DISCONNECTED, CONNECTED>>, <<CONNECTED, RECONNECTING>>,
      <<RECONNECTING, CONNECTED>>, <<RECONNECTING, DISCONNECTED>> }

\* C23: the connection status starts DISCONNECTED and only ever changes
\* along DISCONNECTED->CONNECTED, CONNECTED->RECONNECTING,
\* RECONNECTING->CONNECTED and RECONNECTING->DISCONNECTED.
C23_ConnectionStatus ==
    /\ _connection_status = DISCONNECTED
    /\ [][_connection_status' # _connection_status
            => <<_connection_status, _connection_status'>> \in FourTransitions]_vars


\* SolaceMessaging.get_connection_status of connection m.
get_connection_status(m) == _connection_status

\* C39: the status get_connection_status() returns for a connection changes
\* only in a step of that connection's own connect, disconnect or service
\* events.
C39_OwnEventsOnly ==
    [][ \A m \in Connections :
          get_connection_status(m)' # get_connection_status(m)
          => messaging_service'[m] # messaging_service[m] ]_vars

(***************************************************************************)
(* Part VIII: the blocking waits of the runtime and the stop signal        *)
(*                                                                         *)
(* One thread per blocking queue call of the runtime, each named after the *)
(* method that makes the call.  The time unit is the second.  Whether the  *)
(* queue ever lets the call through is up to the other threads (served):   *)
(* after shutdown nothing need come.                                       *)
(***************************************************************************)
Waits ==
    { "get_next_event",             \* input_queue.get(timeout=1) in a loop
      "enqueue",                    \* input_queue.put(event, timeout=1), loop
      "send_message_to_flow",       \* flow_input_queue.put(event)
      "send_message",               \* self.input_queue.put(event)
      "do_broker_request_response"  \* response_queue.get(timeout=remaining)
    }

\* The calls that pass a timeout to the queue.
timed(w) == w \notin {"send_message_to_flow", "send_message"}

\* The calls made in a `while not self.stop_signal.is_set()` loop.
polls_stop_signal(w) == w \in {"get_next_event", "enqueue"}

\* The timeout the call passes, in seconds: DEFAULT_QUEUE_TIMEOUT_MS / 1000,
\* 1, or what is left of request_expiry_s.
timeouts(w) ==
    IF w = "do_broker_request_response" THEN 1 .. RequestExpiry ELSE {1}

WaitsInit ==
    /\ shutdown = FALSE
    /\ blocked = [w \in Waits |-> FALSE]
    /\ timeout_left = [w \in Waits |-> 0]
    /\ stop_age = 0

\* The thread makes the queue call and the queue does not let it through.
begin_wait(w) ==
    /\ ~blocked[w]
    /\ polls_stop_signal(w) => ~shutdown
    /\ blocked' = [blocked EXCEPT ![w] = TRUE]
    /\ IF timed(w)
          THEN \E t \in timeouts(w) :
                  timeout_left' = [timeout_left EXCEPT ![w] = t]
          ELSE UNCHANGED timeout_left
    /\ UNCHANGED <<shutdown, stop_age>>
    /\ UNCHANGED nonWaitVars

\* The queue lets the call through: an event or a free slot has come.
served(w) ==
    /\ blocked[w]
    /\ blocked' = [blocked EXCEPT ![w] = FALSE]
    /\ timeout_left' = [timeout_left EXCEPT ![w] = 0]
    /\ UNCHANGED <<shutdown, stop_age>>
    /\ UNCHANGED nonWaitVars

\* The timeout elapses (queue.Empty / queue.Full): a polling loop tests the
\* stop signal and makes the call again unless it is set; the generator's
\* get is over.
timeout_elapses(w) ==
    /\ blocked[w]
    /\ timed(w)
    /\ timeout_left[w] = 0
    /\ IF polls_stop_signal(w) /\ ~shutdown
          THEN /\ \E t \in timeouts(w) :
                      timeout_left' = [timeout_left EXCEPT ![w] = t]
               /\ UNCHANGED blocked
          ELSE /\ blocked' = [blocked EXCEPT ![w] = FALSE]
               /\ UNCHANGED timeout_left
    /\ UNCHANGED <<shutdown, stop_age>>
    /\ UNCHANGED nonWaitVars

\* stop_signal.set()
set_stop_signal ==
    /\ ~shutdown
    /\ shutdown' = TRUE
    /\ UNCHANGED <<blocked, timeout_left, stop_age>>
    /\ UNCHANGED nonWaitVars

\* A second passes; an elapsed timeout is handled before the next second.
second_passes ==
    /\ \A w \in Waits : (blocked[w] /\ timed(w)) => timeout_left[w] > 0
    /\ shutdown => stop_age < MaxStopAge
    /\ timeout_left' = [w \in Waits |->
            IF blocked[w] /\ timed(w) THEN timeout_left[w] - 1
                                      ELSE timeout_left[w]]
    /\ stop_age' = IF shutdown THEN stop_age + 1 ELSE stop_age
    /\ UNCHANGED <<shutdown, blocked>>
    /\ UNCHANGED nonWaitVars

WaitsNext ==
    \/ \E w \in Waits : begin_wait(w) \/ served(w) \/ timeout_elapses(w)
    \/ set_stop_signal
    \/ second_passes

\* C24: every blocking wait observes the shutdown signal within one timeout
\* tick of at most 1 s: no thread is still blocked more than one second
\* after the stop signal was set.
C24_WaitsObserveShutdown ==
    \A w \in Waits : (shutdown /\ blocked[w]) => stop_age <= 1

(***************************************************************************)
(* Part IX: sibling instances of one component                             *)
(*                                                                         *)
(* The flow creates NumInstances instances of a component and gives every  *)
(* instance after the first the first one as its sibling_component; what   *)
(* is sent to the component is put on the first instance's queue.  Each    *)
(* instance runs ComponentBase.run in a thread of its own; a step is one   *)
(* test of the stop signal or one queue call.                              *)
(***************************************************************************)
Instances == 1 .. NumInstances

Events == 1 .. MaxEvents

\* 0: the instance was created without a sibling.
sibling_component(i) == IF i = 1 THEN 0 ELSE 1

\* setup_communications: the instance whose queue is self.input_queue.
input_queue_of(i) ==
    IF sibling_component(i) # 0 THEN sibling_component(i) ELSE i

\* (mutant) get hands out the oldest item and leaves it in the queue.
queue_get_leaves_item(q) == q

\* queue.Queue.get: the queue once its oldest item is taken.
queue_get(q) == Tail(q)

RunnersInit ==
    /\ instance_queue = [i \in Instances |-> <<>>]
    /\ worker_pc = [i \in Instances |-> "run"]
    /\ current_event = [i \in Instances |-> 0]
    /\ worker_stop_signal = FALSE
    /\ processed = [i \in Instances |-> <<>>]
    /\ placed = 0

\* An event is put on the component's channel (enqueue by the previous
\* component, or send_message_to_flow).
put_event ==
    /\ placed < MaxEvents
    /\ Len(instance_queue[1]) < queue_max_depth
    /\ placed' = placed + 1
    /\ instance_queue' = [instance_queue EXCEPT ![1] = queue_put(@, placed + 1)]
    /\ UNCHANGED <<worker_pc, current_event, worker_stop_signal, processed>>
    /\ UNCHANGED nonRunnerVars

\* run, line 99: `while not self.stop_signal.is_set()`.
run_tests_stop_signal(i) ==
    /\ worker_pc[i] = "run"
    /\ worker_pc' = [worker_pc EXCEPT ![i] =
            IF worker_stop_signal THEN "stopped" ELSE "get_next_event"]
    /\ UNCHANGED <<instance_queue, current_event, worker_stop_signal,
                   processed, placed>>
    /\ UNCHANGED nonRunnerVars

\* get_next_event, line 151: `while not self.stop_signal.is_set()`; when
\* set it returns None and run goes round its loop.
get_next_event_tests_stop_signal(i) ==
    /\ worker_pc[i] = "get_next_event"
    /\ worker_pc' = [worker_pc EXCEPT ![i] =
            IF worker_stop_signal THEN "run" ELSE "get"]
    /\ UNCHANGED <<instance_queue, current_event, worker_stop_signal,
                   processed, placed>>
    /\ UNCHANGED nonRunnerVars

\* get_next_event, line 154: self.input_queue.get(timeout=...) returns the
\* oldest event of the queue.
input_queue_get(i) ==
    /\ worker_pc[i] = "get"
    /\ LET q == input_queue_of(i)
       IN /\ instance_queue[q] # <<>>
          /\ current_event' = [current_event EXCEPT ![i] = Head(instance_queue[q])]
          /\ instance_queue' = [instance_queue EXCEPT ![q] = queue_get(@)]
    /\ worker_pc' = [worker_pc EXCEPT ![i] = "process_event"]
    /\ UNCHANGED <<worker_stop_signal, processed, placed>>
    /\ UNCHANGED nonRunnerVars

\* get_next_event, lines 159-160: the get times out on an empty queue.
input_queue_get_empty(i) ==
    /\ worker_pc[i] = "get"
    /\ instance_queue[input_queue_of(i)] = <<>>
    /\ worker_pc' = [worker_pc EXCEPT ![i] = "get_next_event"]
    /\ UNCHANGED <<instance_queue, current_event, worker_stop_signal,
                   processed, placed>>
    /\ UNCHANGED nonRunnerVars

\* run, lines 102-118: process_event returns or raises; either way the
\* worker is done with the event and goes round its loop.
process_event_ends(i) ==
    /\ worker_pc[i] = "process_event"
    /\ processed' = [processed EXCEPT ![i] = Append(@, current_event[i])]
    /\ current_event' = [current_event EXCEPT ![i] = 0]
    /\ worker_pc' = [worker_pc EXCEPT ![i] = "run"]
    /\ UNCHANGED <<instance_queue, worker_stop_signal, placed>>
    /\ UNCHANGED nonRunnerVars

\* stop_signal.set()
worker_stop_signal_set ==
    /\ ~worker_stop_signal
    /\ worker_stop_signal' = TRUE
    /\ UNCHANGED <<instance_queue, worker_pc, current_event, processed, placed>>
    /\ UNCHANGED nonRunnerVars

worker_step(i) ==
    \/ run_tests_stop_signal(i)
    \/ get_next_event_tests_stop_signal(i)
    \/ input_queue_get(i)
    \/ input_queue_get_empty(i)
    \/ process_event_ends(i)

RunnersNext ==
    \/ put_event
    \/ \E i \in Instances : worker_step(i)
    \/ worker_stop_signal_set

\* C25: after the shutdown signal is set a runner completes at most the
\* envelope it is processing and takes no further event from its input
\* channel.
C25_NoEventTakenAfterShutdown ==
    [][worker_stop_signal =>
          \A i \in Instances : current_event'[i] \in {current_event[i], 0}]_vars

\* How many times event e occurs in sequence s.
count(e, s) == Len(SelectSeq(s, LAMBDA x : x = e))

\* Where event e is: waiting in a queue, held by a worker, processed.
waiting(e) == \E i \in Instances : count(e, instance_queue[i]) > 0
times_taken(e) ==
    LET RECURSIVE sum(_)
        sum(i) == IF i = 0 THEN 0
                  ELSE sum(i - 1) + count(e, processed[i])
                       + (IF current_event[i] = e THEN 1 ELSE 0)
    IN sum(NumInstances)
times_processed(e) ==
    LET RECURSIVE sum(_)
        sum(i) == IF i = 0 THEN 0 ELSE sum(i - 1) + count(e, processed[i])
    IN sum(NumInstances)

\* C28: all instances of a component take their events from the first
\* instance's input channel, and every event placed on that channel is
\* taken by exactly one instance, which processes it once; while no
\* shutdown is signalled no event stays on the channel for ever.
C28_SharedChannel ==
    /\ [](\A i \in Instances : input_queue_of(i) = input_queue_of(1))
    /\ [](\A e \in 1 .. placed :
             /\ waiting(e) <=> times_taken(e) = 0
             /\ times_taken(e) <= 1)
    /\ \A e \in Events :
          (placed >= e) ~> (times_processed(e) = 1 \/ worker_stop_signal)

\* The second instance has processed an event put on the first one's queue
\* and the first instance another.
C28_Witness ==
    /\ processed[1] # <<>>
    /\ processed[2] # <<>>
    /\ placed = MaxEvents

(***************************************************************************)
(* Part X: the connector's apps and flows from creation to cleanup         *)
(*                                                                         *)
(* An app is [app_index, flows]: app_index is its position in the order of *)
(* creation and flows the list of its flows, each named by its position.   *)
(***************************************************************************)
LifecycleInit ==
    /\ apps = <<>>
    /\ lifecycle = "creating"
    /\ cleaning = [app |-> 0, flow |-> 0]
    /\ cleanup_log = <<>>

\* create_apps, lines 118-174: the next app of the configuration is
\* constructed with its flows and appended to self.apps.
create_app(num_flows) ==
    /\ lifecycle = "creating"
    /\ Len(apps) < MaxApps
    /\ apps' = Append(apps, [app_index |-> Len(apps) + 1,
                             flows |-> [f \in 1 .. num_flows |-> f]])
    /\ UNCHANGED <<lifecycle, cleaning, cleanup_log>>
    /\ UNCHANGED nonLifecycleVars

\* create_apps, lines 180-181: app_obj.run() for every app, in order.
run_apps ==
    /\ lifecycle = "creating"
    /\ apps # <<>>
    /\ lifecycle' = "running"
    /\ UNCHANGED <<apps, cleaning, cleanup_log>>
    /\ UNCHANGED nonLifecycleVars

\* The shutdown signal: stop(), after which the caller calls cleanup().
connector_stop ==
    /\ lifecycle = "running"
    /\ lifecycle' = "cleanup"
    /\ cleaning' = [app |-> 1, flow |-> 1]
    /\ UNCHANGED <<apps, cleanup_log>>
    /\ UNCHANGED nonLifecycleVars

\* App.cleanup, lines 291-295: flow.cleanup() for the next flow of the app
\* that SolaceAiConnector.cleanup (lines 261-265) is at.
flow_cleanup ==
    /\ lifecycle = "cleanup"
    /\ cleaning.app <= Len(apps)
    /\ cleaning.flow <= Len(apps[cleaning.app].flows)
    /\ cleanup_log' = Append(cleanup_log,
            <<apps[cleaning.app].app_index,
              apps[cleaning.app].flows[cleaning.flow]>>)
    /\ cleaning' = [cleaning EXCEPT !.flow = @ + 1]
    /\ UNCHANGED <<apps, lifecycle>>
    /\ UNCHANGED nonLifecycleVars

\* App.cleanup, lines 296-298: the app clears its flows; the connector's
\* loop goes on to the next app.
app_cleanup_ends ==
    /\ lifecycle = "cleanup"
    /\ cleaning.app <= Len(apps)
    /\ cleaning.flow > Len(apps[cleaning.app].flows)
    /\ apps' = [apps EXCEPT ![cleaning.app].flows = <<>>]
    /\ cleaning' = [app |-> cleaning.app + 1, flow |-> 1]
    /\ UNCHANGED <<lifecycle, cleanup_log>>
    /\ UNCHANGED nonLifecycleVars

\* SolaceAiConnector.cleanup, lines 266-288.
cleanup_ends ==
    /\ lifecycle = "cleanup"
    /\ cleaning.app > Len(apps)
    /\ apps' = <<>>
    /\ lifecycle' = "done"
    /\ cleaning' = [app |-> 0, flow |-> 0]
    /\ UNCHANGED cleanup_log
    /\ UNCHANGED nonLifecycleVars

LifecycleNext ==
    \/ \E num_flows \in 1 .. MaxFlows : create_app(num_flows)
    \/ run_apps
    \/ connector_stop
    \/ flow_cleanup
    \/ app_cleanup_ends
    \/ cleanup_ends

\* Flow x was created before flow y.
created_before(x, y) == x[1] < y[1] \/ (x[1] = y[1] /\ x[2] < y[2])

\* C26: on the shutdown signal the apps, and the flows they own, are cleaned
\* up in the reverse of the order in which they were created and started.
C26_ReverseCleanup ==
    \A k \in 1 .. Len(cleanup_log) - 1 :
        created_before(cleanup_log[k + 1], cleanup_log[k])

(***************************************************************************)
(* Part XI: the implicit flow of a simplified app                          *)
(*                                                                         *)
(* app_info is [name, broker, components]; broker is a dict whose keys     *)
(* input_enabled and output_enabled are True, False or missing.  A         *)
(* synthesized component is named <<app name, suffix>>.                    *)
(***************************************************************************)
ConfigValues == {"missing", "True", "False"}

UserComponentNames == {"a", "b"}

UserComponent(n) == [component_name |-> n, component_module |-> n]

NoFlowConfig == [name |-> "None", components |-> <<>>]

SimplifiedInit ==
    /\ app_info = [name |-> "app",
                   broker |-> [input_enabled |-> "missing",
                               output_enabled |-> "missing"],
                   components |-> <<>>]
    /\ flow_config = NoFlowConfig

\* broker_config.get(key, False), taken as a condition.
broker_config_get(broker_config, key) == broker_config[key] = "True"

\* (mutant) the router is added for a single user component as well.
with_router_for_one(broker_config, user_components) ==
    broker_config_get(broker_config, "input_enabled") /\ Len(user_components) >= 1

\* Line 194: input enabled and more than one user component.
with_router(broker_config, user_components) ==
    broker_config_get(broker_config, "input_enabled") /\ Len(user_components) > 1

_create_simplified_flow_config(info) ==
    LET broker_config == info.broker
        user_components == info.components
        input == IF broker_config_get(broker_config, "input_enabled")
                 THEN << [component_name |-> <<info.name, "_broker_input">>,
                          component_module |-> "broker_input"] >>
                 ELSE <<>>
        router == IF with_router(broker_config, user_components)
                  THEN << [component_name |-> <<info.name, "_router">>,
                           component_module |-> "subscription_router"] >>
                  ELSE <<>>
        output == IF broker_config_get(broker_config, "output_enabled")
                  THEN << [component_name |-> <<info.name, "_broker_output">>,
                           component_module |-> "broker_output"] >>
                  ELSE <<>>
    IN [name |-> <<info.name, "_implicit_flow">>,
        components |-> input \o router \o user_components \o output]

\* The configuration file sets a key of the broker section.
set_broker_key(key, v) ==
    /\ app_info' = [app_info EXCEPT !.broker[key] = v]
    /\ app_info' # app_info
    /\ flow_config' = NoFlowConfig
    /\ UNCHANGED nonSimplifiedVars

\* The configuration file lists one more component.
add_user_component(n) ==
    /\ Len(app_info.components) < MaxUserComponents
    /\ app_info' = [app_info EXCEPT !.components = Append(@, UserComponent(n))]
    /\ flow_config' = NoFlowConfig
    /\ UNCHANGED nonSimplifiedVars

\* App.create_flows on a simplified app, lines 119-122.
create_flows ==
    /\ flow_config = NoFlowConfig
    /\ flow_config' = _create_simplified_flow_config(app_info)
    /\ UNCHANGED app_info
    /\ UNCHANGED nonSimplifiedVars

SimplifiedNext ==
    \/ \E key \in {"input_enabled", "output_enabled"}, v \in ConfigValues :
            set_broker_key(key, v)
    \/ \E n \in UserComponentNames : add_user_component(n)
    \/ create_flows

FlowCreated == flow_config # NoFlowConfig

input_enabled == app_info.broker.input_enabled = "True"
output_enabled == app_info.broker.output_enabled = "True"

modules == [k \in DOMAIN flow_config.components |->
                flow_config.components[k].component_module]

\* The positions of the flow at which a component of module m stands.
positions(m) == {k \in DOMAIN modules : modules[k] = m}

\* The flow without the components of the three synthesized modules.
user_part ==
    SelectSeq(flow_config.components,
              LAMBDA comp : comp.component_module \notin
                  {"broker_input", "subscription_router", "broker_output"})

\* C29: the implicit flow of a simplified app is BrokerInput first iff
\* input_enabled, then SubscriptionRouter iff input_enabled and there are at
\* least two user components, then the user components in configuration
\* order, then BrokerOutput last iff output_enabled.
C29_ImplicitFlow ==
    FlowCreated =>
        /\ positions("broker_input") = IF input_enabled THEN {1} ELSE {}
        /\ positions("subscription_router") =
               IF input_enabled /\ Len(app_info.components) >= 2 THEN {2} ELSE {}
        /\ positions("broker_output") =
               IF output_enabled THEN {Len(modules)} ELSE {}
        /\ user_part = app_info.components

\* Input and output enabled and two different user components: the flow has
\* all four parts.
C29_Witness ==
    /\ FlowCreated
    /\ input_enabled
    /\ output_enabled
    /\ Len(app_info.components) = 2
    /\ app_info.components[1] # app_info.components[2]
    /\ Len(flow_config.components) = 5


(***************************************************************************)
(* Part XII: several threads calling one RequestResponseFlowController     *)
(*                                                                         *)
(* Each caller runs the generator do_broker_request_response; the          *)
(* controller's input_queue and response_queue are shared by all of them.  *)
(* A response is [request, last]: the request it answers and the truth of  *)
(* the completion expression on it.  The clock is left out: a get on an    *)
(* empty response queue may raise Empty at any time.                       *)
(***************************************************************************)
Callers == 1 .. NumCallers

CallersInit ==
    /\ caller_pc = [k \in Callers |-> "idle"]
    /\ caller_stream = [k \in Callers |-> FALSE]
    /\ caller_request = [k \in Callers |-> 0]
    /\ caller_yields = [k \in Callers |-> <<>>]
    /\ controller_input_queue = <<>>
    /\ controller_response_queue = <<>>
    /\ requests_published = {}
    /\ requests_sent = 0
    /\ responses_enqueued = 0

\* Lines 83-84 and 131-153: the caller's send_message puts its request on
\* the input queue; the generator goes on to its first get.
caller_sends(k, stream) ==
    /\ caller_pc[k] \in {"idle", "done"}
    /\ requests_sent < MaxCalls
    /\ Len(controller_input_queue) < queue_max_depth
    /\ requests_sent' = requests_sent + 1
    /\ caller_request' = [caller_request EXCEPT ![k] = requests_sent + 1]
    /\ caller_stream' = [caller_stream EXCEPT ![k] = stream]
    /\ caller_yields' = [caller_yields EXCEPT ![k] = <<>>]
    /\ controller_input_queue' = Append(controller_input_queue, requests_sent + 1)
    /\ caller_pc' = [caller_pc EXCEPT ![k] = "get"]
    /\ UNCHANGED <<controller_response_queue, requests_published,
                   responses_enqueued>>
    /\ UNCHANGED nonCallerVars

\* Lines 96-100 and 118-121: the caller's response_queue.get returns the
\* oldest event and the generator yields its message.
caller_gets(k) ==
    /\ caller_pc[k] = "get"
    /\ controller_response_queue # <<>>
    /\ caller_yields' = [caller_yields EXCEPT ![k] =
            Append(@, Head(controller_response_queue))]
    /\ controller_response_queue' = Tail(controller_response_queue)
    /\ caller_pc' = [caller_pc EXCEPT ![k] = "yielded"]
    /\ UNCHANGED <<caller_stream, caller_request, controller_input_queue,
                   requests_published, requests_sent, responses_enqueued>>
    /\ UNCHANGED nonCallerVars

\* Lines 101-102, 111-113 and 122: the caller resumes its generator, which
\* returns after a last message and otherwise reads again.
caller_resumes(k) ==
    /\ caller_pc[k] = "yielded"
    /\ caller_pc' = [caller_pc EXCEPT ![k] =
            IF ~caller_stream[k] \/ streaming_complete(Last(caller_yields[k]))
            THEN "done" ELSE "get"]
    /\ UNCHANGED <<caller_stream, caller_request, caller_yields,
                   controller_input_queue, controller_response_queue,
                   requests_published, requests_sent, responses_enqueued>>
    /\ UNCHANGED nonCallerVars

\* Lines 103-107 and 123-127: the caller's get raises Empty and the
\* generator ends (with TimeoutError or, not streaming, by falling off).
caller_get_empty(k) ==
    /\ caller_pc[k] = "get"
    /\ controller_response_queue = <<>>
    /\ caller_pc' = [caller_pc EXCEPT ![k] = "done"]
    /\ UNCHANGED <<caller_stream, caller_request, caller_yields,
                   controller_input_queue, controller_response_queue,
                   requests_published, requests_sent, responses_enqueued>>
    /\ UNCHANGED nonCallerVars

\* The internal flow takes a request off the input queue and publishes it.
internal_flow_publishes ==
    /\ controller_input_queue # <<>>
    /\ requests_published' = requests_published \cup {Head(controller_input_queue)}
    /\ controller_input_queue' = Tail(controller_input_queue)
    /\ UNCHANGED <<caller_pc, caller_stream, caller_request, caller_yields,
                   controller_response_queue, requests_sent, responses_enqueued>>
    /\ UNCHANGED nonCallerVars

\* enqueue_response, lines 155-156: the tail of the internal flow hands
\* over the response to published request r.
response_enqueued(r, last) ==
    /\ r \in requests_published
    /\ responses_enqueued < MaxReplies
    /\ responses_enqueued' = responses_enqueued + 1
    /\ controller_response_queue' =
           Append(controller_response_queue, [request |-> r, last |-> last])
    /\ UNCHANGED <<caller_pc, caller_stream, caller_request, caller_yields,
                   controller_input_queue, requests_published, requests_sent>>
    /\ UNCHANGED nonCallerVars

CallersNext ==
    \/ \E k \in Callers, stream \in BOOLEAN : caller_sends(k, stream)
    \/ \E k \in Callers : caller_gets(k)
    \/ \E k \in Callers : caller_resumes(k)
    \/ \E k \in Callers : caller_get_empty(k)
    \/ internal_flow_publishes
    \/ \E r \in 1 .. MaxCalls, last \in BOOLEAN : response_enqueued(r, last)

\* Two callers have a request in progress at the same time.
Overlapping ==
    \E j, k \in Callers :
        j # k /\ caller_pc[j] \in {"get", "yielded"}
              /\ caller_pc[k] \in {"get", "yielded"}

\* C31: when two callers issue overlapping requests through the same
\* controller, each caller's iterator yields only responses that belong to
\* its own request.
C31_OwnResponsesOnly ==
    Overlapping =>
        \A k \in Callers : \A i \in DOMAIN caller_yields[k] :
            caller_yields[k][i].request = caller_request[k]

(***************************************************************************)
(* Part XIII: progress of envelopes through a flow that is not shut down   *)
(*                                                                         *)
(* The flow of Part I with its envelopes reduced to their numbers and no   *)
(* stop signal.  outcome[e][c] is how process_event of component c ended   *)
(* on envelope e: "-" (not yet), "raise", or what after_invoke says.       *)
(***************************************************************************)
PipelineInit ==
    /\ stage_queue = [c \in Components |-> <<>>]
    /\ stage_pc = [c \in Components |-> "get"]
    /\ stage_event = [c \in Components |-> 0]
    /\ outcome = [e \in Events |-> [c \in Components |-> "-"]]
    /\ head_puts = 0

\* send_message_to_flow: an envelope is put on the head channel.
head_put ==
    /\ head_puts < MaxEvents
    /\ Len(stage_queue[1]) < queue_max_depth
    /\ head_puts' = head_puts + 1
    /\ stage_queue' = [stage_queue EXCEPT ![1] = queue_put(@, head_puts + 1)]
    /\ UNCHANGED <<stage_pc, stage_event, outcome>>
    /\ UNCHANGED nonPipelineVars

\* get_next_event: input_queue.get returns the oldest event.
stage_get(c) ==
    /\ stage_pc[c] = "get"
    /\ stage_queue[c] # <<>>
    /\ stage_event' = [stage_event EXCEPT ![c] = Head(stage_queue[c])]
    /\ stage_queue' = [stage_queue EXCEPT ![c] = queue_get(@)]
    /\ stage_pc' = [stage_pc EXCEPT ![c] = "process"]
    /\ UNCHANGED <<outcome, head_puts>>
    /\ UNCHANGED nonPipelineVars

\* process_event: process_pre_invoke or invoke raises (and run backs off
\* for a bounded time), or invoke returns and lines 185-188 decide; only
\* process_post_invoke on a component with a next one goes on to enqueue.
stage_process(c, raises, discarded, result) ==
    /\ stage_pc[c] = "process"
    /\ LET how == IF raises THEN "raise" ELSE after_invoke(discarded, result)
           e == stage_event[c]
       IN /\ outcome' = [outcome EXCEPT ![e][c] = how]
          /\ IF how = "process_post_invoke" /\ next_component(c) # 0
             THEN /\ stage_pc' = [stage_pc EXCEPT ![c] = "send"]
                  /\ UNCHANGED stage_event
             ELSE /\ stage_pc' = [stage_pc EXCEPT ![c] = "get"]
                  /\ stage_event' = [stage_event EXCEPT ![c] = 0]
    /\ UNCHANGED <<stage_queue, head_puts>>
    /\ UNCHANGED nonPipelineVars

\* enqueue on the next component: put(event, timeout=1) is made again after
\* every queue.Full and goes through as soon as the queue has room.
stage_enqueue(c) ==
    /\ stage_pc[c] = "send"
    /\ LET n == next_component(c)
       IN /\ Len(stage_queue[n]) < queue_max_depth
          /\ stage_queue' = [stage_queue EXCEPT ![n] = queue_put(@, stage_event[c])]
    /\ stage_pc' = [stage_pc EXCEPT ![c] = "get"]
    /\ stage_event' = [stage_event EXCEPT ![c] = 0]
    /\ UNCHANGED <<outcome, head_puts>>
    /\ UNCHANGED nonPipelineVars

stage_step(c) ==
    \/ stage_get(c)
    \/ \E raises, discarded \in BOOLEAN, result \in Results :
            stage_process(c, raises, discarded, result)
    \/ stage_enqueue(c)

PipelineNext ==
    \/ head_put
    \/ \E c \in Components : stage_step(c)

\* Envelope e has been processed up to the tail, or up to a component that
\* raised, discarded it or returned None.
ProcessedToTheEnd(e) ==
    \E c \in Components :
        /\ \A d \in 1 .. c - 1 : outcome[e][d] = "process_post_invoke"
        /\ \/ outcome[e][c] \in {"raise", "call_acknowledgements", "nothing"}
           \/ c = NumComponents /\ outcome[e][c] = "process_post_invoke"

\* C32: absent shutdown and with every invoke returning, no runner blocks
\* for ever on a channel, and every envelope placed on the head channel is
\* eventually processed by each component up to the tail, or up to the
\* first component that raises, discards it or returns None.
C32_Progress ==
    /\ \A c \in Components : (stage_pc[c] = "send") ~> (stage_pc[c] # "send")
    /\ \A e \in Events : (head_puts >= e) ~> ProcessedToTheEnd(e)
    /\ [](\A e \in Events, c \in Components :
             outcome[e][c] # "-" =>
                 \A d \in 1 .. c - 1 : outcome[e][d] = "process_post_invoke")

\* The head component has processed an envelope and waits to enqueue it on
\* the full channel of the next component.
C32_Witness ==
    /\ stage_pc[1] = "send"
    /\ outcome[stage_event[1]][1] = "process_post_invoke"
    /\ Len(stage_queue[2]) = queue_max_depth

(***************************************************************************)
(* Part XIV.  command_control/entity_registry.py and request_router.py     *)
(* with register_entity, deregister_entity and route_request running on    *)
(* three threads.  The registry takes no lock, so the threads interleave   *)
(* between the statements of the three methods: one step per endpoint      *)
(* registered, one for storing the entity, one for popping it, one for     *)
(* removing its endpoints, one for the lookup and one for get_entity.      *)
(***************************************************************************)
Idle == [pc |-> "idle"]

ThreadsInit ==
    /\ registering = Idle
    /\ deregistering = Idle
    /\ routing = Idle

\* What the threads leave alone outside the registry's three tables.
ThreadsFrame ==
    /\ UNCHANGED <<cc_result, before, adapterVars>>
    /\ UNCHANGED nonThreadVars

\* register_entity, lines 41-49: read entity_id, return False without one,
\* read the endpoints.
register_entity_begins(entity_data) ==
    /\ registering.pc = "idle"
    /\ register_calls < MaxRegisterCalls
    /\ register_calls' = register_calls + 1
    /\ registering' = IF entity_data.entity_id = "" THEN Idle
                      ELSE [pc |-> "endpoints", entity_data |-> entity_data,
                            left |-> entity_data.endpoints]
    /\ UNCHANGED <<entities, endpoints, endpoint_patterns>>
    /\ UNCHANGED <<deregistering, routing>>
    /\ ThreadsFrame

\* One turn of the loop of lines 52-70: the endpoint is filed, or compiling
\* its template raises and the endpoints of the entity are removed.
register_entity_endpoint ==
    /\ registering.pc = "endpoints"
    /\ registering.left # <<>>
    /\ LET entity_id == registering.entity_data.entity_id
           r1 == _register_endpoint(entity_id, Head(registering.left),
                     [endpoints |-> endpoints,
                      endpoint_patterns |-> endpoint_patterns,
                      raised |-> FALSE])
           r == IF r1.raised THEN remove_endpoints_of(entity_id, r1) ELSE r1
       IN /\ endpoints' = r.endpoints
          /\ endpoint_patterns' = r.endpoint_patterns
          /\ registering' = IF r1.raised THEN Idle
                            ELSE [registering EXCEPT !.left = Tail(@)]
    /\ UNCHANGED <<entities, register_calls>>
    /\ UNCHANGED <<deregistering, routing>>
    /\ ThreadsFrame

\* Lines 72-74: the entity is stored after its endpoints.
register_entity_stores ==
    /\ registering.pc = "endpoints"
    /\ registering.left = <<>>
    /\ entities' = dict_set(entities, registering.entity_data.entity_id,
                            registering.entity_data)
    /\ registering' = Idle
    /\ UNCHANGED <<endpoints, endpoint_patterns, register_calls>>
    /\ UNCHANGED <<deregistering, routing>>
    /\ ThreadsFrame

\* deregister_entity, lines 188-193: an unknown entity returns False, a
\* known one is popped from entities.
deregister_entity_pops(entity_id) ==
    /\ deregistering.pc = "idle"
    /\ dict_has(entities, entity_id)
    /\ entities' = dict_pop(entities, entity_id)
    /\ deregistering' = [pc |-> "endpoints", entity_id |-> entity_id]
    /\ UNCHANGED <<endpoints, endpoint_patterns, register_calls>>
    /\ UNCHANGED <<registering, routing>>
    /\ ThreadsFrame

\* Lines 195-207: the endpoints of the popped entity are removed.
deregister_entity_removes ==
    /\ deregistering.pc = "endpoints"
    /\ LET r == remove_endpoints_of(deregistering.entity_id,
                    [endpoints |-> endpoints,
                     endpoint_patterns |-> endpoint_patterns])
       IN /\ endpoints' = r.endpoints
          /\ endpoint_patterns' = r.endpoint_patterns
    /\ deregistering' = Idle
    /\ UNCHANGED <<entities, register_calls>>
    /\ UNCHANGED <<registering, routing>>
    /\ ThreadsFrame

\* route_request, lines 49-78: the lookup, the test of the handler and the
\* validation of the parameters; owner_registered says whether the owner of
\* the endpoint found was in entities when the lookup returned.  The
\* response of the call before stays in routing until the next call.
route_request_finds(request) ==
    /\ routing.pc \in {"idle", "returned"}
    /\ LET r == find_endpoint_handler(request.endpoint, request.method)
           invalid == _validate_parameters(r.handler_info, r.path_params,
                          request.query_params, request.body)
           status_code == IF ~r.found THEN 404
                          ELSE IF ~callable(r.handler_info.handler) THEN 500
                          ELSE IF invalid THEN 400
                          ELSE 0
       IN routing' = [pc |-> IF status_code = 0 THEN "get_entity"
                             ELSE "returned",
                      request |-> request,
                      resolved |-> r.found,
                      entity_id |-> r.entity_id,
                      owner_registered |-> dict_has(entities, r.entity_id),
                      status_code |-> status_code]
    /\ UNCHANGED <<entities, endpoints, endpoint_patterns, register_calls>>
    /\ UNCHANGED <<registering, deregistering>>
    /\ ThreadsFrame

\* Lines 80-117: get_entity, 500 for an entity that is not found, else the
\* handler is called and its exception, if any, answered with 500.
route_request_gets_entity(raises) ==
    /\ routing.pc = "get_entity"
    /\ routing' = [routing EXCEPT
                     !.pc = "returned",
                     !.status_code =
                         IF ~dict_has(entities, routing.entity_id) THEN 500
                         ELSE IF raises THEN 500 ELSE 200]
    /\ UNCHANGED <<entities, endpoints, endpoint_patterns, register_calls>>
    /\ UNCHANGED <<registering, deregistering>>
    /\ ThreadsFrame

\* The entities and the requests of the three threads.
ThreadEntityData ==
    { [entity_id |-> "E1", endpoints |-> <<EndpointAXBY1>>],
      [entity_id |-> "E2", endpoints |-> <<EndpointAPBQ, EndpointC>>],
      [entity_id |-> "E1", endpoints |-> <<EndpointC, EndpointXX>>],
      [entity_id |-> "", endpoints |-> <<EndpointC>>] }

ThreadRequests ==
    { Request(<<"r", "1">>, GET, path, [kind |-> "None", props |-> {}]) :
        path \in {PathAB(<<"7">>, <<"1", "2">>), <<"/", "c">>, <<"/", "e">>} }

ThreadsNext ==
    \/ \E entity_data \in ThreadEntityData :
          register_entity_begins(entity_data)
    \/ register_entity_endpoint
    \/ register_entity_stores
    \/ \E entity_id \in EntityIds : deregister_entity_pops(entity_id)
    \/ deregister_entity_removes
    \/ \E request \in ThreadRequests : route_request_finds(request)
    \/ \E raises \in BOOLEAN : route_request_gets_entity(raises)

\* C35: under any interleaving of register_entity, deregister_entity and
\* route_request on different threads, the endpoint a routed request
\* resolves to is owned by an entity that is in the registry.
C35_ResolvedOwnerRegistered ==
    (routing.pc # "idle" /\ routing.resolved) => routing.owner_registered


(***************************************************************************)
(* Part XV.  common/messaging/dev_broker_messaging.py: the DevBroker       *)
(* objects of one process keep their subscriptions and their queues in the *)
(* flow_kv_store, so every client works on the same two tables.  A queue   *)
(* is a queue.Queue object: the table maps the queue id to a reference and *)
(* queue_objects holds what waits on each object.  The consumer of a       *)
(* client is the thread that calls receive_message on the client's         *)
(* queue_name.                                                             *)
(***************************************************************************)
Clients == 1..NumClients

\* broker_properties of the clients: the first two name the same queue.
client_queue_name(k) == IF k <= 2 THEN "q1" ELSE "q2"
client_subscriptions(k) ==
    IF k <= 2 THEN << <<"a", "/", ">">> >> ELSE << <<"b", "/", ">">> >>

ClientTopics == { <<"a", "/", "b">>, <<"b", "/", "c", "/", "d">> }

\* DevBroker.__init__: the tables of the flow_kv_store start empty.
ClientsInit ==
    /\ kv_subscriptions = <<>>
    /\ kv_queues = <<>>
    /\ queue_objects = <<>>
    /\ client_connected = [k \in Clients |-> FALSE]
    /\ consumer_waits = [k \in Clients |-> 0]
    /\ client_sends = 0

\* Line 33: self.queues[queue_name] = queue.Queue()
connect_queue(queue_id, table, objects) ==
    [table |-> (queue_id :> Len(objects) + 1) @@ table,
     objects |-> Append(objects, <<>>)]

\* DevBroker.connect of client k.
client_connect(k) ==
    /\ ~client_connected[k]
    /\ client_connected' = [client_connected EXCEPT ![k] = TRUE]
    /\ LET q == connect_queue(client_queue_name(k), kv_queues, queue_objects)
           r == subscribe_each("dev_broker_messaging", client_subscriptions(k),
                    client_queue_name(k),
                    [subscriptions |-> kv_subscriptions, queues |-> q.table])
       IN /\ kv_queues' = q.table
          /\ queue_objects' = q.objects
          /\ kv_subscriptions' = r.subscriptions
    /\ UNCHANGED <<consumer_waits, client_sends>>
    /\ UNCHANGED nonClientVars

\* The loop of send_message on the queue objects.
RECURSIVE put_on_queues(_, _, _)
put_on_queues(ids, msg, objects) ==
    IF ids = <<>> THEN objects
    ELSE put_on_queues(Tail(ids), msg,
             [objects EXCEPT ![kv_queues[Head(ids)]] = Append(@, msg)])

\* DevBroker.send_message of client k (RuntimeError unless connected).
client_send_message(k, topic) ==
    /\ client_connected[k]
    /\ client_sends < MaxSends
    /\ client_sends' = client_sends + 1
    /\ queue_objects' =
          put_on_queues(
              _get_matching_queue_ids("dev_broker_messaging",
                                      kv_subscriptions, topic),
              client_sends + 1, queue_objects)
    /\ UNCHANGED <<kv_subscriptions, kv_queues, client_connected,
                   consumer_waits>>
    /\ UNCHANGED nonClientVars

\* DevBroker.receive_message of client k, line 45: self.queues[queue_id] is
\* read and get is called on that object.
receive_message_begins(k) ==
    /\ client_connected[k]
    /\ consumer_waits[k] = 0
    /\ consumer_waits' =
          [consumer_waits EXCEPT ![k] = kv_queues[client_queue_name(k)]]
    /\ UNCHANGED <<kv_subscriptions, kv_queues, queue_objects,
                   client_connected, client_sends>>
    /\ UNCHANGED nonClientVars

\* Lines 45-47: get returns the first message of the object, or the timeout
\* passes and receive_message returns None.
receive_message_ends(k, expired) ==
    /\ consumer_waits[k] # 0
    /\ IF queue_objects[consumer_waits[k]] # <<>>
       THEN queue_objects' = [queue_objects EXCEPT ![consumer_waits[k]] = Tail(@)]
       ELSE expired /\ UNCHANGED queue_objects
    /\ consumer_waits' = [consumer_waits EXCEPT ![k] = 0]
    /\ UNCHANGED <<kv_subscriptions, kv_queues, client_connected,
                   client_sends>>
    /\ UNCHANGED nonClientVars

ClientsNext ==
    \/ \E k \in Clients : client_connect(k)
    \/ \E k \in Clients, topic \in ClientTopics : client_send_message(k, topic)
    \/ \E k \in Clients : receive_message_begins(k)
    \/ \E k \in Clients, expired \in BOOLEAN :
          receive_message_ends(k, expired)

\* The step is a connect of client k.
ConnectStep(k) == ~client_connected[k] /\ client_connected'[k]

\* C36: connecting a client whose queue_name is already in the shared queue
\* table leaves the messages waiting on that queue where they are, and a
\* consumer that is receiving from the queue keeps receiving from it.
C36_ConnectKeepsQueue ==
    [][ \A k \in Clients :
          (ConnectStep(k) /\ client_queue_name(k) \in DOMAIN kv_queues)
          => LET q == client_queue_name(k)
             IN /\ queue_objects'[kv_queues'[q]] = queue_objects[kv_queues[q]]
                /\ \A c \in Clients :
                      consumer_waits[c] = kv_queues[q]
                      => consumer_waits'[c] = kv_queues'[q] ]_vars

(***************************************************************************)
(* Part XVI.  components/inputs_outputs/assembly.py.  The component takes  *)
(* MESSAGE and TIMER events from its input queue (ComponentBase            *)
(* .process_event).  An assembly is kept in the cache under its key, with  *)
(* the number it was started as and the items collected so far.  The       *)
(* timer manager holds one pending timer per timer id; when the delay has  *)
(* passed it puts a TIMER event on the component's input queue, behind     *)
(* the events that are already waiting there.                              *)
(***************************************************************************)
max_items == MaxItems

AssemblyKeys == {"k1", "k2"}

NoAssembly == [id |-> 0, items |-> 0]

NothingHandled == [op |-> "none", raised |-> FALSE, flushed |-> 0, armed_by |-> 0]

AssemblyInit ==
    /\ assembly_queue = <<>>
    /\ cache = [key \in AssemblyKeys |-> NoAssembly]
    /\ timers = [key \in AssemblyKeys |-> 0]
    /\ assemblies = 0
    /\ assembly_messages = 0
    /\ handled = NothingHandled

\* Assembly.start_new_assembly on st = [cache, timers, assemblies]: the
\* timer of the key is armed and an empty assembly returned.
start_new_assembly(assemble_key, st) ==
    [st EXCEPT !.timers[assemble_key] = st.assemblies + 1,
               !.assemblies = @ + 1,
               !.cache[assemble_key] = [id |-> st.assemblies + 1, items |-> 0]]

\* Assembly.flush_assembly: the pending timer of the key is cancelled, the
\* assembly read from the cache (None if there is none) and removed.
flush_assembly(assemble_key, st) ==
    [st |-> [st EXCEPT !.timers[assemble_key] = 0,
                       !.cache[assemble_key] = NoAssembly],
     assembly |-> st.cache[assemble_key]]

\* A message with the key arrives on the input queue.
assembly_enqueue(key) ==
    /\ assembly_messages < MaxAssemblyMessages
    /\ assembly_messages' = assembly_messages + 1
    /\ assembly_queue' = Append(assembly_queue, [type |-> "MESSAGE", key |-> key])
    /\ UNCHANGED <<cache, timers, assemblies, handled>>
    /\ UNCHANGED nonAssemblyVars

\* max_time_ms after add_timer the timer manager fires the timer of the
\* key: the timer is no longer pending and a TIMER event is queued.
timer_fires(key) ==
    /\ timers[key] # 0
    /\ timers' = [timers EXCEPT ![key] = 0]
    /\ assembly_queue' = Append(assembly_queue,
                                [type |-> "TIMER", key |-> key,
                                 armed_by |-> timers[key]])
    /\ UNCHANGED <<cache, assemblies, assembly_messages, handled>>
    /\ UNCHANGED nonAssemblyVars

\* Assembly.invoke for the MESSAGE event at the head of the input queue.
Assembly_invoke ==
    /\ assembly_queue # <<>>
    /\ Head(assembly_queue).type = "MESSAGE"
    /\ LET event_key == Head(assembly_queue).key
           st0 == [cache |-> cache, timers |-> timers, assemblies |-> assemblies]
           st1 == IF cache[event_key] = NoAssembly
                  THEN start_new_assembly(event_key, st0) ELSE st0
           st2 == [st1 EXCEPT !.cache[event_key].items = @ + 1]
           full == st2.cache[event_key].items >= max_items
           f == flush_assembly(event_key, st2)
           st3 == IF full THEN f.st ELSE st2
       IN /\ cache' = st3.cache
          /\ timers' = st3.timers
          /\ assemblies' = st3.assemblies
          /\ handled' = [op |-> "invoke", raised |-> FALSE,
                         flushed |-> IF full THEN f.assembly.id ELSE 0,
                         armed_by |-> 0]
    /\ assembly_queue' = Tail(assembly_queue)
    /\ UNCHANGED assembly_messages
    /\ UNCHANGED nonAssemblyVars

\* Assembly.handle_timer_event for the TIMER event at the head of the input
\* queue: len(assembled_data['list']) raises TypeError when flush_assembly
\* returned None.
Assembly_handle_timer_event ==
    /\ assembly_queue # <<>>
    /\ Head(assembly_queue).type = "TIMER"
    /\ LET assemble_key == Head(assembly_queue).key
           f == flush_assembly(assemble_key,
                    [cache |-> cache, timers |-> timers,
                     assemblies |-> assemblies])
       IN /\ cache' = f.st.cache
          /\ timers' = f.st.timers
          /\ handled' = [op |-> "handle_timer_event",
                         raised |-> f.assembly = NoAssembly,
                         flushed |-> f.assembly.id,
                         armed_by |-> Head(assembly_queue).armed_by]
    /\ assembly_queue' = Tail(assembly_queue)
    /\ UNCHANGED <<assemblies, assembly_messages>>
    /\ UNCHANGED nonAssemblyVars

AssemblyNext ==
    \/ \E key \in AssemblyKeys : assembly_enqueue(key)
    \/ \E key \in AssemblyKeys : timer_fires(key)
    \/ Assembly_invoke
    \/ Assembly_handle_timer_event

\* C40: an assembly is flushed by reaching max_items or by its own timer; a
\* timer event that arrives for an assembly already flushed by size neither
\* raises nor flushes a later assembly started under the same key.
C40_TimerFlushesOwnAssembly ==
    handled.op = "handle_timer_event"
    => /\ ~handled.raised
       /\ handled.flushed \in {0, handled.armed_by}

Init == FlowInit /\ RRInit /\ BrokerInit /\ CCInit /\ TraceInit /\ ContextInit
        /\ BackoffInit /\ ConnectionInit /\ WaitsInit
        /\ RunnersInit /\ LifecycleInit /\ SimplifiedInit
        /\ CallersInit /\ PipelineInit /\ ThreadsInit /\ ClientsInit
        /\ AssemblyInit

SpecFlow == Init /\ [][FlowNext]_vars

SpecRR == Init /\ [][RRNext]_vars

SpecBroker == Init /\ [][BrokerNext]_vars

SpecCC == Init /\ [][CCNext]_vars

SpecAdapter == Init /\ [][AdapterNext]_vars

SpecTrace == Init /\ [][TraceNext]_vars

SpecContext == Init /\ [][ContextNext]_vars

SpecBackoff == Init /\ [][BackoffNext]_vars

SpecConnection == Init /\ [][ConnectionNext]_vars

SpecWaits == Init /\ [][WaitsNext]_vars

SpecLifecycle == Init /\ [][LifecycleNext]_vars

SpecSimplified == Init /\ [][SimplifiedNext]_vars

SpecCallers == Init /\ [][CallersNext]_vars

SpecThreads == Init /\ [][ThreadsNext]_vars

SpecClients == Init /\ [][ClientsNext]_vars

SpecAssembly == Init /\ [][AssemblyNext]_vars

\* Every worker thread keeps running and every invoke returns.
SpecPipeline ==
    Init /\ [][PipelineNext]_vars /\ \A c \in Components : WF_vars(stage_step(c))

\* Every worker thread keeps running.
SpecRunners ==
    Init /\ [][RunnersNext]_vars /\ \A i \in Instances : WF_vars(worker_step(i))

====
